---- MODULE Spec2Model ----
(***************************************************************************)
(* Model of the traefik-cloudrun-provider reconciler: the credential       *)
(* (identity token) manager, the route-ownership resolver, the per-backend *)
(* configuration assembly and the reconciliation loop with its handoff.    *)
(*                                                                         *)
(* Strings of the program are tuples of one-character strings, so that     *)
(* prefix, suffix, trimming and concatenation are computed, not assumed.   *)
(* The backquote character, which a TLA+ string cannot hold, is written   *)
(* "BQ".  Time is in seconds.                                             *)
(***************************************************************************)
EXTENDS Integers, Sequences, FiniteSets, TLC

\* ------------------------------------------------------------------------
\* String helpers (Go package strings)
\* ------------------------------------------------------------------------

HasPrefix(s, p) ==
    Len(s) >= Len(p) /\ SubSeq(s, 1, Len(p)) = p

HasSuffix(s, p) ==
    Len(s) >= Len(p) /\ SubSeq(s, Len(s) - Len(p) + 1, Len(s)) = p

TrimSuffix(s, p) ==
    IF HasSuffix(s, p) THEN SubSeq(s, 1, Len(s) - Len(p)) ELSE s

Contains(s, p) ==
    \E i \in 1..(Len(s) - Len(p) + 1) : SubSeq(s, i, i + Len(p) - 1) = p

RemoveHyphens(s) ==
    SelectSeq(s, LAMBDA c : c # "-")

RECURSIVE TrimLeft(_)
TrimLeft(s) ==
    IF s # <<>> /\ Head(s) = " " THEN TrimLeft(Tail(s)) ELSE s

RECURSIVE TrimRight(_)
TrimRight(s) ==
    IF s # <<>> /\ s[Len(s)] = " " THEN TrimRight(SubSeq(s, 1, Len(s) - 1)) ELSE s

TrimSpace(s) ==
    TrimRight(TrimLeft(s))

\* ------------------------------------------------------------------------
\* String literals
\* ------------------------------------------------------------------------

EMPTY == <<>>
S_eyJ == <<"e", "y", "J">>
S_auth == <<"-", "a", "u", "t", "h">>
S_atfile == <<"@", "f", "i", "l", "e">>

\* ------------------------------------------------------------------------
\* String literals of the program
\* ------------------------------------------------------------------------

\* "traefik_http_routers_"
S_routers_prefix ==
    <<"t", "r", "a", "e", "f", "i", "k", "_", "h", "t", "t", "p", "_", "r", "o", "u", "t",
      "e", "r", "s", "_">>

\* "traefik_enable"
S_traefik_enable ==
    <<"t", "r", "a", "e", "f", "i", "k", "_", "e", "n", "a", "b", "l", "e">>

\* "true"
S_true == <<"t", "r", "u", "e">>

\* "rule"
S_rule == <<"r", "u", "l", "e">>

\* "rule_id"
S_rule_id == <<"r", "u", "l", "e", "_", "i", "d">>

\* "service"
S_service == <<"s", "e", "r", "v", "i", "c", "e">>

\* "priority"
S_priority == <<"p", "r", "i", "o", "r", "i", "t", "y">>

\* "entrypoints"
S_entrypoints == <<"e", "n", "t", "r", "y", "p", "o", "i", "n", "t", "s">>

\* "middlewares"
S_middlewares == <<"m", "i", "d", "d", "l", "e", "w", "a", "r", "e", "s">>

\* "web"
S_web == <<"w", "e", "b">>

\* "-file"
S_dash_file == <<"-", "f", "i", "l", "e">>

\* "retry-cold-start@file"
S_retry ==
    <<"r", "e", "t", "r", "y", "-", "c", "o", "l", "d", "-", "s", "t", "a", "r", "t", "@",
      "f", "i", "l", "e">>

\* "auth-check"
S_auth_check == <<"a", "u", "t", "h", "-", "c", "h", "e", "c", "k">>

\* "strip-"
S_strip == <<"s", "t", "r", "i", "p", "-">>

\* "-prefix"
S_dash_prefix == <<"-", "p", "r", "e", "f", "i", "x">>

\* "-c2"
S_dash_c2 == <<"-", "c", "2">>

\* "-extension"
S_dash_extension == <<"-", "e", "x", "t", "e", "n", "s", "i", "o", "n">>

\* "home-index"
S_home_index == <<"h", "o", "m", "e", "-", "i", "n", "d", "e", "x">>

\* "/api/auth/check"
S_auth_check_path ==
    <<"/", "a", "p", "i", "/", "a", "u", "t", "h", "/", "c", "h", "e", "c", "k">>

\* "api@internal"
S_api_internal == <<"a", "p", "i", "@", "i", "n", "t", "e", "r", "n", "a", "l">>

\* "traefik-api"
S_traefik_api == <<"t", "r", "a", "e", "f", "i", "k", "-", "a", "p", "i">>

\* "traefik-dashboard"
S_traefik_dashboard ==
    <<"t", "r", "a", "e", "f", "i", "k", "-", "d", "a", "s", "h", "b", "o", "a", "r", "d">>

\* "PathPrefix('/api/http') || PathPrefix('/api/rawdata') || PathPrefix('/api/overview') || Path('/api/version')"
S_api_rule ==
    <<"P", "a", "t", "h", "P", "r", "e", "f", "i", "x", "(", "BQ", "/", "a", "p", "i", "/",
      "h", "t", "t", "p", "BQ", ")", " ", "|", "|", " ", "P", "a", "t", "h", "P", "r", "e",
      "f", "i", "x", "(", "BQ", "/", "a", "p", "i", "/", "r", "a", "w", "d", "a", "t", "a",
      "BQ", ")", " ", "|", "|", " ", "P", "a", "t", "h", "P", "r", "e", "f", "i", "x", "(",
      "BQ", "/", "a", "p", "i", "/", "o", "v", "e", "r", "v", "i", "e", "w", "BQ", ")", " ",
      "|", "|", " ", "P", "a", "t", "h", "(", "BQ", "/", "a", "p", "i", "/", "v", "e", "r",
      "s", "i", "o", "n", "BQ", ")">>

\* "PathPrefix('/dashboard')"
S_dashboard_rule ==
    <<"P", "a", "t", "h", "P", "r", "e", "f", "i", "x", "(", "BQ", "/", "d", "a", "s", "h",
      "b", "o", "a", "r", "d", "BQ", ")">>

\* "X-Serverless-Authorization"
S_XServerlessAuthorization ==
    <<"X", "-", "S", "e", "r", "v", "e", "r", "l", "e", "s", "s", "-", "A", "u", "t", "h",
      "o", "r", "i", "z", "a", "t", "i", "o", "n">>

\* "Authorization"
S_Authorization == <<"A", "u", "t", "h", "o", "r", "i", "z", "a", "t", "i", "o", "n">>

\* "Bearer "
S_Bearer == <<"B", "e", "a", "r", "e", "r", " ">>

\* "lab1-auth-check"
S_lab1_auth_check ==
    <<"l", "a", "b", "1", "-", "a", "u", "t", "h", "-", "c", "h", "e", "c", "k">>

\* "lab2-auth-check"
S_lab2_auth_check ==
    <<"l", "a", "b", "2", "-", "a", "u", "t", "h", "-", "c", "h", "e", "c", "k">>

\* "lab3-auth-check"
S_lab3_auth_check ==
    <<"l", "a", "b", "3", "-", "a", "u", "t", "h", "-", "c", "h", "e", "c", "k">>

\* "X-User-Id"
S_X_User_Id == <<"X", "-", "U", "s", "e", "r", "-", "I", "d">>

\* "X-User-Email"
S_X_User_Email == <<"X", "-", "U", "s", "e", "r", "-", "E", "m", "a", "i", "l">>

\* "X-Authorization"
S_X_Authorization ==
    <<"X", "-", "A", "u", "t", "h", "o", "r", "i", "z", "a", "t", "i", "o", "n">>

\* "Cookie"
S_Cookie == <<"C", "o", "o", "k", "i", "e">>

\* "X-Forwarded-For"
S_X_Forwarded_For ==
    <<"X", "-", "F", "o", "r", "w", "a", "r", "d", "e", "d", "-", "F", "o", "r">>

\* "X-Forwarded-Host"
S_X_Forwarded_Host ==
    <<"X", "-", "F", "o", "r", "w", "a", "r", "d", "e", "d", "-", "H", "o", "s", "t">>

\* isDedicatedService: []string{"-stg", "-prd", "-dev", "-staging", "-production"}

EnvSuffixes ==
    <<<<"-", "s", "t", "g">>,
      <<"-", "p", "r", "d">>,
      <<"-", "d", "e", "v">>,
      <<"-", "s", "t", "a", "g", "i", "n", "g">>,
      <<"-", "p", "r", "o", "d", "u", "c", "t", "i", "o", "n">>>>

\* router names of the static tables

\* "home-index-root"
N_home_index_root ==
    <<"h", "o", "m", "e", "-", "i", "n", "d", "e", "x", "-", "r", "o", "o", "t">>

\* "home-index-signin"
N_home_index_signin ==
    <<"h", "o", "m", "e", "-", "i", "n", "d", "e", "x", "-", "s", "i", "g", "n", "i", "n">>

\* "home-seo"
N_home_seo == <<"h", "o", "m", "e", "-", "s", "e", "o">>

\* "labs-analytics"
N_labs_analytics ==
    <<"l", "a", "b", "s", "-", "a", "n", "a", "l", "y", "t", "i", "c", "s">>

\* "lab1"
N_lab1 == <<"l", "a", "b", "1">>

\* "lab1-static"
N_lab1_static == <<"l", "a", "b", "1", "-", "s", "t", "a", "t", "i", "c">>

\* "lab1-c2"
N_lab1_c2 == <<"l", "a", "b", "1", "-", "c", "2">>

\* "lab2"
N_lab2 == <<"l", "a", "b", "2">>

\* "lab2-static"
N_lab2_static == <<"l", "a", "b", "2", "-", "s", "t", "a", "t", "i", "c">>

\* "lab2-c2"
N_lab2_c2 == <<"l", "a", "b", "2", "-", "c", "2">>

\* "lab3"
N_lab3 == <<"l", "a", "b", "3">>

\* "lab3-static"
N_lab3_static == <<"l", "a", "b", "3", "-", "s", "t", "a", "t", "i", "c">>

\* "lab3-extension"
N_lab3_extension ==
    <<"l", "a", "b", "3", "-", "e", "x", "t", "e", "n", "s", "i", "o", "n">>

\* "home-index"
N_home_index == <<"h", "o", "m", "e", "-", "i", "n", "d", "e", "x">>

\* "lab2-main"
N_lab2_main == <<"l", "a", "b", "2", "-", "m", "a", "i", "n">>

\* "lab3-main"
N_lab3_main == <<"l", "a", "b", "3", "-", "m", "a", "i", "n">>

\* rule expressions of ruleMap

\* "PathPrefix('/')"
RULE_home_index_root ==
    <<"P", "a", "t", "h", "P", "r", "e", "f", "i", "x", "(", "BQ", "/", "BQ", ")">>

\* "Path('/sign-in') || Path('/sign-up')"
RULE_home_index_signin ==
    <<"P", "a", "t", "h", "(", "BQ", "/", "s", "i", "g", "n", "-", "i", "n", "BQ", ")", " ",
      "|", "|", " ", "P", "a", "t", "h", "(", "BQ", "/", "s", "i", "g", "n", "-", "u", "p",
      "BQ", ")">>

\* "PathPrefix('/api/seo')"
RULE_home_seo ==
    <<"P", "a", "t", "h", "P", "r", "e", "f", "i", "x", "(", "BQ", "/", "a", "p", "i", "/",
      "s", "e", "o", "BQ", ")">>

\* "PathPrefix('/api/analytics')"
RULE_labs_analytics ==
    <<"P", "a", "t", "h", "P", "r", "e", "f", "i", "x", "(", "BQ", "/", "a", "p", "i", "/",
      "a", "n", "a", "l", "y", "t", "i", "c", "s", "BQ", ")">>

\* "PathPrefix('/lab1')"
RULE_lab1 ==
    <<"P", "a", "t", "h", "P", "r", "e", "f", "i", "x", "(", "BQ", "/", "l", "a", "b", "1",
      "BQ", ")">>

\* "PathPrefix('/lab1/css/') || PathPrefix('/lab1/js/') || PathPrefix('/lab1/images/') || PathPrefix('/lab1/img/') || PathPrefix('/lab1/static/') || PathPrefix('/lab1/assets/')"
RULE_lab1_static ==
    <<"P", "a", "t", "h", "P", "r", "e", "f", "i", "x", "(", "BQ", "/", "l", "a", "b", "1",
      "/", "c", "s", "s", "/", "BQ", ")", " ", "|", "|", " ", "P", "a", "t", "h", "P", "r",
      "e", "f", "i", "x", "(", "BQ", "/", "l", "a", "b", "1", "/", "j", "s", "/", "BQ", ")",
      " ", "|", "|", " ", "P", "a", "t", "h", "P", "r", "e", "f", "i", "x", "(", "BQ", "/",
      "l", "a", "b", "1", "/", "i", "m", "a", "g", "e", "s", "/", "BQ", ")", " ", "|", "|",
      " ", "P", "a", "t", "h", "P", "r", "e", "f", "i", "x", "(", "BQ", "/", "l", "a", "b",
      "1", "/", "i", "m", "g", "/", "BQ", ")", " ", "|", "|", " ", "P", "a", "t", "h", "P",
      "r", "e", "f", "i", "x", "(", "BQ", "/", "l", "a", "b", "1", "/", "s", "t", "a", "t",
      "i", "c", "/", "BQ", ")", " ", "|", "|", " ", "P", "a", "t", "h", "P", "r", "e", "f",
      "i", "x", "(", "BQ", "/", "l", "a", "b", "1", "/", "a", "s", "s", "e", "t", "s", "/",
      "BQ", ")">>

\* "PathPrefix('/lab1/c2')"
RULE_lab1_c2 ==
    <<"P", "a", "t", "h", "P", "r", "e", "f", "i", "x", "(", "BQ", "/", "l", "a", "b", "1",
      "/", "c", "2", "BQ", ")">>

\* "PathPrefix('/lab2')"
RULE_lab2 ==
    <<"P", "a", "t", "h", "P", "r", "e", "f", "i", "x", "(", "BQ", "/", "l", "a", "b", "2",
      "BQ", ")">>

\* "PathPrefix('/lab2/css/') || PathPrefix('/lab2/js/') || PathPrefix('/lab2/images/') || PathPrefix('/lab2/img/') || PathPrefix('/lab2/static/') || PathPrefix('/lab2/assets/')"
RULE_lab2_static ==
    <<"P", "a", "t", "h", "P", "r", "e", "f", "i", "x", "(", "BQ", "/", "l", "a", "b", "2",
      "/", "c", "s", "s", "/", "BQ", ")", " ", "|", "|", " ", "P", "a", "t", "h", "P", "r",
      "e", "f", "i", "x", "(", "BQ", "/", "l", "a", "b", "2", "/", "j", "s", "/", "BQ", ")",
      " ", "|", "|", " ", "P", "a", "t", "h", "P", "r", "e", "f", "i", "x", "(", "BQ", "/",
      "l", "a", "b", "2", "/", "i", "m", "a", "g", "e", "s", "/", "BQ", ")", " ", "|", "|",
      " ", "P", "a", "t", "h", "P", "r", "e", "f", "i", "x", "(", "BQ", "/", "l", "a", "b",
      "2", "/", "i", "m", "g", "/", "BQ", ")", " ", "|", "|", " ", "P", "a", "t", "h", "P",
      "r", "e", "f", "i", "x", "(", "BQ", "/", "l", "a", "b", "2", "/", "s", "t", "a", "t",
      "i", "c", "/", "BQ", ")", " ", "|", "|", " ", "P", "a", "t", "h", "P", "r", "e", "f",
      "i", "x", "(", "BQ", "/", "l", "a", "b", "2", "/", "a", "s", "s", "e", "t", "s", "/",
      "BQ", ")">>

\* "PathPrefix('/lab2/c2')"
RULE_lab2_c2 ==
    <<"P", "a", "t", "h", "P", "r", "e", "f", "i", "x", "(", "BQ", "/", "l", "a", "b", "2",
      "/", "c", "2", "BQ", ")">>

\* "PathPrefix('/lab3')"
RULE_lab3 ==
    <<"P", "a", "t", "h", "P", "r", "e", "f", "i", "x", "(", "BQ", "/", "l", "a", "b", "3",
      "BQ", ")">>

\* "PathPrefix('/lab3/css/') || PathPrefix('/lab3/js/') || PathPrefix('/lab3/images/') || PathPrefix('/lab3/img/') || PathPrefix('/lab3/static/') || PathPrefix('/lab3/assets/')"
RULE_lab3_static ==
    <<"P", "a", "t", "h", "P", "r", "e", "f", "i", "x", "(", "BQ", "/", "l", "a", "b", "3",
      "/", "c", "s", "s", "/", "BQ", ")", " ", "|", "|", " ", "P", "a", "t", "h", "P", "r",
      "e", "f", "i", "x", "(", "BQ", "/", "l", "a", "b", "3", "/", "j", "s", "/", "BQ", ")",
      " ", "|", "|", " ", "P", "a", "t", "h", "P", "r", "e", "f", "i", "x", "(", "BQ", "/",
      "l", "a", "b", "3", "/", "i", "m", "a", "g", "e", "s", "/", "BQ", ")", " ", "|", "|",
      " ", "P", "a", "t", "h", "P", "r", "e", "f", "i", "x", "(", "BQ", "/", "l", "a", "b",
      "3", "/", "i", "m", "g", "/", "BQ", ")", " ", "|", "|", " ", "P", "a", "t", "h", "P",
      "r", "e", "f", "i", "x", "(", "BQ", "/", "l", "a", "b", "3", "/", "s", "t", "a", "t",
      "i", "c", "/", "BQ", ")", " ", "|", "|", " ", "P", "a", "t", "h", "P", "r", "e", "f",
      "i", "x", "(", "BQ", "/", "l", "a", "b", "3", "/", "a", "s", "s", "e", "t", "s", "/",
      "BQ", ")">>

\* "PathPrefix('/lab3/extension')"
RULE_lab3_extension ==
    <<"P", "a", "t", "h", "P", "r", "e", "f", "i", "x", "(", "BQ", "/", "l", "a", "b", "3",
      "/", "e", "x", "t", "e", "n", "s", "i", "o", "n", "BQ", ")">>

\* middleware names of stripPrefixMap

\* "strip-lab1-prefix@file"
MW_strip_lab1_prefix ==
    <<"s", "t", "r", "i", "p", "-", "l", "a", "b", "1", "-", "p", "r", "e", "f", "i", "x",
      "@", "f", "i", "l", "e">>

\* "strip-lab1-c2-prefix@file"
MW_strip_lab1_c2_prefix ==
    <<"s", "t", "r", "i", "p", "-", "l", "a", "b", "1", "-", "c", "2", "-", "p", "r", "e",
      "f", "i", "x", "@", "f", "i", "l", "e">>

\* "strip-lab2-prefix@file"
MW_strip_lab2_prefix ==
    <<"s", "t", "r", "i", "p", "-", "l", "a", "b", "2", "-", "p", "r", "e", "f", "i", "x",
      "@", "f", "i", "l", "e">>

\* "strip-lab2-c2-prefix@file"
MW_strip_lab2_c2_prefix ==
    <<"s", "t", "r", "i", "p", "-", "l", "a", "b", "2", "-", "c", "2", "-", "p", "r", "e",
      "f", "i", "x", "@", "f", "i", "l", "e">>

\* "strip-lab3-prefix@file"
MW_strip_lab3_prefix ==
    <<"s", "t", "r", "i", "p", "-", "l", "a", "b", "3", "-", "p", "r", "e", "f", "i", "x",
      "@", "f", "i", "l", "e">>

\* "strip-lab3-extension-prefix@file"
MW_strip_lab3_extension_prefix ==
    <<"s", "t", "r", "i", "p", "-", "l", "a", "b", "3", "-", "e", "x", "t", "e", "n", "s",
      "i", "o", "n", "-", "p", "r", "e", "f", "i", "x", "@", "f", "i", "l", "e">>

\* "strip-seo-prefix@file"
MW_strip_seo_prefix ==
    <<"s", "t", "r", "i", "p", "-", "s", "e", "o", "-", "p", "r", "e", "f", "i", "x", "@",
      "f", "i", "l", "e">>

\* "strip-analytics-prefix@file"
MW_strip_analytics_prefix ==
    <<"s", "t", "r", "i", "p", "-", "a", "n", "a", "l", "y", "t", "i", "c", "s", "-", "p",
      "r", "e", "f", "i", "x", "@", "f", "i", "l", "e">>

ruleMap ==
    (N_home_index_root :> RULE_home_index_root) @@
    (N_home_index_signin :> RULE_home_index_signin) @@
    (N_home_seo :> RULE_home_seo) @@
    (N_labs_analytics :> RULE_labs_analytics) @@
    (N_lab1 :> RULE_lab1) @@
    (N_lab1_static :> RULE_lab1_static) @@
    (N_lab1_c2 :> RULE_lab1_c2) @@
    (N_lab2 :> RULE_lab2) @@
    (N_lab2_static :> RULE_lab2_static) @@
    (N_lab2_c2 :> RULE_lab2_c2) @@
    (N_lab3 :> RULE_lab3) @@
    (N_lab3_static :> RULE_lab3_static) @@
    (N_lab3_extension :> RULE_lab3_extension)

defaultPriorityMap ==
    (N_home_index :> 1) @@
    (N_home_index_root :> 1) @@
    (N_home_index_signin :> 100) @@
    (N_home_seo :> 500) @@
    (N_labs_analytics :> 500) @@
    (N_lab1 :> 200) @@
    (N_lab1_static :> 250) @@
    (N_lab1_c2 :> 300) @@
    (N_lab2 :> 200) @@
    (N_lab2_main :> 200) @@
    (N_lab2_static :> 250) @@
    (N_lab2_c2 :> 300) @@
    (N_lab3 :> 200) @@
    (N_lab3_main :> 200) @@
    (N_lab3_static :> 250) @@
    (N_lab3_extension :> 300)

stripPrefixMap ==
    (N_lab1 :> MW_strip_lab1_prefix) @@
    (N_lab1_static :> MW_strip_lab1_prefix) @@
    (N_lab1_c2 :> MW_strip_lab1_c2_prefix) @@
    (N_lab2 :> MW_strip_lab2_prefix) @@
    (N_lab2_main :> MW_strip_lab2_prefix) @@
    (N_lab2_static :> MW_strip_lab2_prefix) @@
    (N_lab2_c2 :> MW_strip_lab2_c2_prefix) @@
    (N_lab3 :> MW_strip_lab3_prefix) @@
    (N_lab3_main :> MW_strip_lab3_prefix) @@
    (N_lab3_static :> MW_strip_lab3_prefix) @@
    (N_lab3_extension :> MW_strip_lab3_extension_prefix) @@
    (N_home_seo :> MW_strip_seo_prefix) @@
    (N_labs_analytics :> MW_strip_analytics_prefix)

\* ------------------------------------------------------------------------
\* Bounds
\* ------------------------------------------------------------------------

\* fetches issued in one behaviour (each fetch yields a distinct token)
MaxFetches == 2
\* clock advances in one behaviour
MaxAdvances == 2
\* services the directory holds, all projects together
MaxServices == 2
\* updateConfig calls of one loop
MaxCycles == 2

\* ------------------------------------------------------------------------
\* Program constants
\* ------------------------------------------------------------------------

\* 55 * time.Minute, in seconds
TokenTTL == 3300

\* client := &http.Client{Timeout: 5 * time.Second}
FetchTimeout == 5

\* make(chan *provider.DynamicConfig, 1)
ChanCap == 1

\* config.PollInterval = 30 * time.Second
PollInterval == 30

\* case <-time.After(60 * time.Second)
HandoffTimeout == 60

\* ------------------------------------------------------------------------
\* Credential manager (internal/gcp/token_manager.go)
\* ------------------------------------------------------------------------

URL_a == <<"h", ":", "/", "/", "a">>
URL_b == <<"h", ":", "/", "/", "b">>
Audiences == {URL_a, URL_b}

NoErr == "nil"

\* the token minted by the n-th fetch of a behaviour
FreshToken(n) == S_eyJ \o <<ToString(n)>>

\* what the metadata server can answer to the n-th fetch
MetaKinds == {"ok", "padded", "no such host", "lookup metadata.google.internal",
              "timeout", "status", "badformat", "emptybody"}
MetaResponse(kind, n) ==
    CASE kind = "ok"        -> [doErr |-> NoErr, status |-> 200, body |-> FreshToken(n)]
      [] kind = "padded"    -> [doErr |-> NoErr, status |-> 200, body |-> FreshToken(n) \o <<" ">>]
      [] kind = "status"    -> [doErr |-> NoErr, status |-> 404, body |-> EMPTY]
      [] kind = "badformat" -> [doErr |-> NoErr, status |-> 200, body |-> <<"b", "a", "d">>]
      [] kind = "emptybody" -> [doErr |-> NoErr, status |-> 200, body |-> <<" ">>]
      [] OTHER              -> [doErr |-> kind, status |-> 0, body |-> EMPTY]

\* what the ADC token source can answer to the n-th fetch
AdcKinds == {"ok", "opaque", "source error", "token error", "empty"}
AdcResponse(kind, n) ==
    CASE kind = "ok"     -> [srcErr |-> NoErr, tokErr |-> NoErr, AccessToken |-> FreshToken(n)]
      [] kind = "opaque" -> [srcErr |-> NoErr, tokErr |-> NoErr, AccessToken |-> <<"y", "a", ToString(n)>>]
      [] kind = "empty"  -> [srcErr |-> NoErr, tokErr |-> NoErr, AccessToken |-> EMPTY]
      [] kind = "source error" -> [srcErr |-> kind, tokErr |-> NoErr, AccessToken |-> EMPTY]
      [] OTHER           -> [srcErr |-> NoErr, tokErr |-> kind, AccessToken |-> EMPTY]

NewTokenManager(dev) ==
    [cache |-> <<>>, devMode |-> dev, metadataChecked |-> FALSE, hasMetadata |-> FALSE]

fetchFromMetadata(audience, resp) ==
    LET tokenStr == TrimSpace(resp.body)
    IN  IF resp.doErr # NoErr THEN [token |-> EMPTY, err |-> resp.doErr]
        ELSE IF resp.status # 200 THEN [token |-> EMPTY, err |-> "metadata server returned status"]
        ELSE IF ~HasPrefix(tokenStr, S_eyJ) THEN [token |-> EMPTY, err |-> "token doesn't look valid"]
        ELSE [token |-> tokenStr, err |-> NoErr]

\* fetchFromADC without the test of the empty token
fetchFromADC_NoEmptyCheck(audience, resp) ==
    IF resp.srcErr # NoErr THEN [token |-> EMPTY, err |-> "failed to create token source with ADC"]
    ELSE IF resp.tokErr # NoErr THEN [token |-> EMPTY, err |-> "failed to fetch token from ADC"]
    ELSE [token |-> resp.AccessToken, err |-> NoErr]

fetchFromADC(audience, resp) ==
    IF resp.srcErr # NoErr THEN [token |-> EMPTY, err |-> "failed to create token source with ADC"]
    ELSE IF resp.tokErr # NoErr THEN [token |-> EMPTY, err |-> "failed to fetch token from ADC"]
    ELSE IF resp.AccessToken = EMPTY THEN [token |-> EMPTY, err |-> "ADC returned empty token"]
    ELSE [token |-> resp.AccessToken, err |-> NoErr]

\* strings.Contains(err.Error(), "no such host") || ... "lookup metadata.google.internal"
IsNoSuchHost(err) ==
    err \in {"no such host", "lookup metadata.google.internal"}

CacheValid(tm, audience, t) ==
    audience \in DOMAIN tm.cache /\ t < tm.cache[audience].ExpiresAt

\* a store that keeps nothing but the new entry
CacheStore_Alone(tm, audience, token, t) ==
    [tm EXCEPT !.cache = (audience :> [Token |-> token, ExpiresAt |-> t + TokenTTL])]

CacheStore(tm, audience, token, t) ==
    [tm EXCEPT !.cache = (audience :> [Token |-> token, ExpiresAt |-> t + TokenTTL]) @@ @]

\* GetToken(audience) called at time t; env holds the answers the two
\* sources would give and the time a fetch takes.  fetches lists the
\* sources that were actually asked.
GetToken(tm, audience, t, env) ==
    LET meta == fetchFromMetadata(audience, env.meta)
        adc == fetchFromADC(audience, env.adc)
        tEnd == t + env.delay
        unavailable == [tm EXCEPT !.metadataChecked = TRUE, !.hasMetadata = FALSE]
        available == [tm EXCEPT !.metadataChecked = TRUE, !.hasMetadata = TRUE]
        Ret(tm2, token, err, fetches, end) ==
            [tm |-> tm2, token |-> token, err |-> err, fetches |-> fetches, end |-> end]
    IN  IF CacheValid(tm, audience, t)
        THEN Ret(tm, tm.cache[audience].Token, NoErr, <<>>, t)
        ELSE IF ~tm.metadataChecked \/ tm.hasMetadata
        THEN IF meta.err # NoErr
             THEN IF IsNoSuchHost(meta.err)
                  THEN IF tm.devMode
                       THEN Ret(unavailable, adc.token, adc.err, <<"metadata", "adc">>, tEnd)
                       ELSE Ret(unavailable, EMPTY, "metadata server not available (running locally?)",
                                <<"metadata">>, tEnd)
                  ELSE Ret(tm, EMPTY, meta.err, <<"metadata">>, tEnd)
             ELSE Ret(CacheStore(available, audience, meta.token, tEnd), meta.token, NoErr,
                      <<"metadata">>, tEnd)
        ELSE IF tm.devMode
        THEN IF adc.err # NoErr
             THEN Ret(tm, EMPTY, adc.err, <<"adc">>, tEnd)
             ELSE Ret(CacheStore(tm, audience, adc.token, tEnd), adc.token, NoErr, <<"adc">>, tEnd)
        ELSE Ret(tm, EMPTY, "metadata server not available and dev mode disabled", <<>>, t)

ClearCache(tm) ==
    [tm EXCEPT !.cache = <<>>]

CacheStats(tm, t) ==
    [total |-> Cardinality(DOMAIN tm.cache),
     expired |-> Cardinality({a \in DOMAIN tm.cache : t > tm.cache[a].ExpiresAt})]

\* ------------------------------------------------------------------------
\* More string helpers
\* ------------------------------------------------------------------------

\* strings.Index: position of the first occurrence of p in s, 0 when absent
Index(s, p) ==
    IF Contains(s, p)
    THEN CHOOSE i \in 1..(Len(s) - Len(p) + 1) :
            /\ SubSeq(s, i, i + Len(p) - 1) = p
            /\ \A j \in 1..(i - 1) : SubSeq(s, j, j + Len(p) - 1) # p
    ELSE 0

\* strings.Split(s, sep) for a non-empty separator
RECURSIVE Split(_, _)
Split(s, sep) ==
    LET i == Index(s, sep)
    IN  IF i = 0
        THEN <<s>>
        ELSE <<SubSeq(s, 1, i - 1)>> \o Split(SubSeq(s, i + Len(sep), Len(s)), sep)

\* strings.SplitN(s, sep, n) for n > 0
RECURSIVE SplitN(_, _, _)
SplitN(s, sep, n) ==
    LET i == Index(s, sep)
    IN  IF n = 1 \/ i = 0
        THEN <<s>>
        ELSE <<SubSeq(s, 1, i - 1)>> \o SplitN(SubSeq(s, i + Len(sep), Len(s)), sep, n - 1)

Digits == <<"0", "1", "2", "3", "4", "5", "6", "7", "8", "9">>

IsDigit(c) == \E d \in 1..10 : Digits[d] = c

DigitValue(c) == (CHOOSE d \in 1..10 : Digits[d] = c) - 1

\* the longest prefix of s made of the characters fmt scans for %d (digits and "_")
RECURSIVE NumberToken(_)
NumberToken(s) ==
    IF s # <<>> /\ (IsDigit(Head(s)) \/ Head(s) = "_")
    THEN <<Head(s)>> \o NumberToken(Tail(s))
    ELSE <<>>

RECURSIVE DecimalValue(_, _)
DecimalValue(s, acc) ==
    IF s = <<>> THEN acc ELSE DecimalValue(Tail(s), 10 * acc + DigitValue(Head(s)))

\* fmt.Sscanf(value, "%d", &x): leading blanks are skipped, an optional sign
\* and a run of digits are read, what follows is ignored; on failure x keeps
\* its old value
Sscanf_d(value, old) ==
    LET s == TrimLeft(value)
        signed == s # <<>> /\ Head(s) \in {"+", "-"}
        tok == NumberToken(IF signed THEN Tail(s) ELSE s)
    IN  IF tok = <<>> \/ \E i \in 1..Len(tok) : tok[i] = "_"
        THEN old
        ELSE IF signed /\ Head(s) = "-" THEN 0 - DecimalValue(tok, 0) ELSE DecimalValue(tok, 0)

\* ------------------------------------------------------------------------
\* Metadata parser (provider/labels.go)
\* ------------------------------------------------------------------------

\* the zero value of RouterConfig
ZeroRouterConfig ==
    [Rule |-> EMPTY, Service |-> EMPTY, Priority |-> 0, EntryPoints |-> <<>>, Middlewares |-> <<>>]

getDefaultPriority(routerName) ==
    IF routerName \in DOMAIN defaultPriorityMap THEN defaultPriorityMap[routerName] ELSE 200

\* variant: the test of the length is inverted
ensureEntryPoints_Inverted(router) ==
    IF Len(router.EntryPoints) = 0 THEN router ELSE [router EXCEPT !.EntryPoints = <<>>]

ensureEntryPoints(router) ==
    IF Len(router.EntryPoints) = 0 THEN [router EXCEPT !.EntryPoints = <<S_web>>] ELSE router

\* case "middlewares": the tokens appended to router.Middlewares
parseMiddlewares(value) ==
    LET parts == IF Contains(value, <<"_", "_">>) THEN Split(value, <<"_", "_">>)
                 ELSE IF Contains(value, <<";">>) THEN Split(value, <<";">>)
                 ELSE Split(value, <<",">>)
        trimmed == [i \in 1..Len(parts) |-> TrimSpace(parts[i])]
        kept == SelectSeq(trimmed, LAMBDA part : part # EMPTY)
    IN  [i \in 1..Len(kept) |->
            IF HasSuffix(kept[i], S_dash_file)
            THEN TrimSuffix(kept[i], S_dash_file) \o S_atfile
            ELSE kept[i]]

\* case "entrypoints"
parseEntryPoints(value) ==
    LET parts == Split(value, <<",">>)
        trimmed == [i \in 1..Len(parts) |-> TrimSpace(parts[i])]
    IN  IF Len(trimmed) = 0 THEN <<S_web>> ELSE trimmed

\* the switch over the property of one label
applyProperty(router, property, value) ==
    CASE property = S_rule ->
            [router EXCEPT !.Rule = IF value \in DOMAIN ruleMap THEN ruleMap[value] ELSE value]
      [] property = S_rule_id ->
            IF value \in DOMAIN ruleMap THEN [router EXCEPT !.Rule = ruleMap[value]] ELSE router
      [] property = S_service ->
            [router EXCEPT !.Service = value]
      [] property = S_priority ->
            [router EXCEPT !.Priority = Sscanf_d(value, router.Priority)]
      [] property = S_entrypoints ->
            [router EXCEPT !.EntryPoints = parseEntryPoints(value)]
      [] property = S_middlewares ->
            [router EXCEPT !.Middlewares = router.Middlewares \o parseMiddlewares(value)]
      [] OTHER -> router

\* one iteration of "for key, value := range labels"
extractOne(routers, key, value) ==
    LET parts == SplitN(key, <<"_">>, 5)
    IN  IF ~HasPrefix(key, S_routers_prefix) \/ Len(parts) < 5
        THEN routers
        ELSE LET routerName == parts[4]
                 property == parts[5]
                 existing == IF routerName \in DOMAIN routers
                             THEN routers[routerName] ELSE ZeroRouterConfig
                 started == IF existing.Rule = EMPTY
                            THEN [ZeroRouterConfig EXCEPT
                                     !.Priority = getDefaultPriority(routerName),
                                     !.EntryPoints = <<S_web>>]
                            ELSE existing
                 router == applyProperty(ensureEntryPoints(started), property, value)
             IN  (routerName :> ensureEntryPoints(router)) @@ routers

RECURSIVE extractLoop(_, _, _)
extractLoop(labels, order, routers) ==
    IF order = <<>>
    THEN routers
    ELSE extractLoop(labels, Tail(order), extractOne(routers, Head(order), labels[Head(order)]))

\* extractRouterConfigs(labels, serviceName), the label map being visited
\* in the given order of its keys
extractRouterConfigs(labels, order) ==
    LET routers == extractLoop(labels, order, <<>>)
    IN  [name \in DOMAIN routers |-> ensureEntryPoints(routers[name])]

\* the orders in which a Go map with these keys can be visited
KeyOrders(keys) ==
    {order \in [1..Cardinality(keys) -> keys] :
        \A i, j \in 1..Cardinality(keys) : i # j => order[i] # order[j]}

\* ------------------------------------------------------------------------
\* Route conflict resolver and configuration builder (provider/config.go)
\* ------------------------------------------------------------------------

\* writer is bookkeeping of the model: who made the last assignment to Routers[name]
NewDynamicConfig ==
    [Routers |-> <<>>, Services |-> <<>>, Middlewares |-> <<>>, routerSources |-> <<>>,
     writer |-> <<>>]

RECURSIVE trimSuffixes(_, _)
trimSuffixes(name, suffixes) ==
    IF suffixes = <<>> THEN name
    ELSE trimSuffixes(TrimSuffix(name, Head(suffixes)), Tail(suffixes))

isDedicatedService(routerName, serviceName) ==
    LET normalizedService == trimSuffixes(serviceName, EnvSuffixes)
    IN  \/ normalizedService = routerName
        \/ RemoveHyphens(normalizedService) = RemoveHyphens(routerName)

\* variant: no dedicated test, the last claimant always takes the route
AddRouterWithSource_LastWins(c, name, config, sourceName) ==
    [c EXCEPT !.Routers = (name :> config) @@ @,
              !.routerSources = (name :> sourceName) @@ @,
              !.writer = (name :> sourceName) @@ @]

\* variant: a route that has an owner is never given to another claimant
AddRouterWithSource_FirstWins(c, name, config, sourceName) ==
    IF name \in DOMAIN c.routerSources
    THEN c
    ELSE [c EXCEPT !.Routers = (name :> config) @@ @,
                   !.routerSources = (name :> sourceName) @@ @,
                   !.writer = (name :> sourceName) @@ @]

\* variant: the two sides of the dedicated test exchanged
AddRouterWithSource_Swapped(c, name, config, sourceName) ==
    IF /\ name \in DOMAIN c.routerSources
       /\ ~isDedicatedService(name, c.routerSources[name])
       /\ isDedicatedService(name, sourceName)
    THEN c
    ELSE [c EXCEPT !.Routers = (name :> config) @@ @,
                   !.routerSources = (name :> sourceName) @@ @,
                   !.writer = (name :> sourceName) @@ @]

AddRouterWithSource(c, name, config, sourceName) ==
    IF /\ name \in DOMAIN c.routerSources
       /\ isDedicatedService(name, c.routerSources[name])
       /\ ~isDedicatedService(name, sourceName)
    THEN c
    ELSE [c EXCEPT !.Routers = (name :> config) @@ @,
                   !.routerSources = (name :> sourceName) @@ @,
                   !.writer = (name :> sourceName) @@ @]

AddService(c, name, config) ==
    [c EXCEPT !.Services = (name :> config) @@ @]

\* a nil *HeadersConfig, a nil *ForwardAuthConfig
NoHeaders == [nil |-> TRUE]
NoForwardAuth == [nil |-> TRUE]

\* variant: the token is put in the Authorization header
AddAuthMiddleware_Authorization(c, name, token) ==
    IF token = EMPTY
    THEN c
    ELSE [c EXCEPT !.Middlewares =
            (name :> [Headers |-> [CustomRequestHeaders |->
                                      (S_Authorization :> (S_Bearer \o token))],
                      ForwardAuth |-> NoForwardAuth]) @@ @]

AddAuthMiddleware(c, name, token) ==
    IF token = EMPTY
    THEN c
    ELSE [c EXCEPT !.Middlewares =
            (name :> [Headers |-> [CustomRequestHeaders |->
                                      (S_XServerlessAuthorization :> (S_Bearer \o token))],
                      ForwardAuth |-> NoForwardAuth]) @@ @]

InternalWriter == <<"<", "i", "n", "t", "e", "r", "n", "a", "l", ">">>

\* variant: the two routers are added like the routers of a backend, with
\* the conflict rule of AddRouterWithSource
AddTraefikInternalRouters_WithSource(c) ==
    AddRouterWithSource(
        AddRouterWithSource(c, S_traefik_api,
            [Rule |-> S_api_rule, Service |-> S_api_internal, Priority |-> 1000,
             EntryPoints |-> <<S_web>>, Middlewares |-> <<>>], InternalWriter),
        S_traefik_dashboard,
        [Rule |-> S_dashboard_rule, Service |-> S_api_internal, Priority |-> 1000,
         EntryPoints |-> <<S_web>>, Middlewares |-> <<>>], InternalWriter)

AddTraefikInternalRouters(c) ==
    LET api == [Rule |-> S_api_rule, Service |-> S_api_internal, Priority |-> 1000,
                EntryPoints |-> <<S_web>>, Middlewares |-> <<>>]
        dashboard == [Rule |-> S_dashboard_rule, Service |-> S_api_internal, Priority |-> 1000,
                      EntryPoints |-> <<S_web>>, Middlewares |-> <<>>]
    IN  [c EXCEPT !.Routers = (S_traefik_api :> api) @@ (S_traefik_dashboard :> dashboard) @@ @,
                  !.writer = (S_traefik_api :> InternalWriter) @@
                             (S_traefik_dashboard :> InternalWriter) @@ @]

AddForwardAuthMiddleware(c, name, homeIndexURL) ==
    IF homeIndexURL = EMPTY
    THEN c
    ELSE [c EXCEPT !.Middlewares =
            (name :> [Headers |-> NoHeaders,
                      ForwardAuth |->
                         [Address |-> homeIndexURL \o S_auth_check_path,
                          TrustForwardHeader |-> TRUE,
                          AuthResponseHeaders |-> <<S_X_User_Id, S_X_User_Email, S_X_Authorization>>,
                          AuthRequestHeaders |-> <<S_Authorization, S_Cookie, S_X_Forwarded_For,
                                                   S_X_Forwarded_Host>>]]) @@ @]

\* ------------------------------------------------------------------------
\* Directory content used for checking: service names, URLs, labels
\* ------------------------------------------------------------------------

\* "cat"
SVC_cat == <<"c", "a", "t">>

\* "w-d-stg"
SVC_wd_stg == <<"w", "-", "d", "-", "s", "t", "g">>

\* "wd"
SVC_wd == <<"w", "d">>

\* "plain"
SVC_plain == <<"p", "l", "a", "i", "n">>

\* "off"
SVC_off == <<"o", "f", "f">>

\* "multi"
SVC_multi == <<"m", "u", "l", "t", "i">>

\* "traefik-api-prd"
SVC_admin ==
    <<"t", "r", "a", "e", "f", "i", "k", "-", "a", "p", "i", "-", "p", "r", "d">>

\* "h://c"
URL_c == <<"h", ":", "/", "/", "c">>

\* "h://p"
URL_p == <<"h", ":", "/", "/", "p">>

\* "h://o"
URL_o == <<"h", ":", "/", "/", "o">>

\* "h://m"
URL_m == <<"h", ":", "/", "/", "m">>

\* "h://t"
URL_t == <<"h", ":", "/", "/", "t">>

\* "w-d"
R_wd == <<"w", "-", "d">>

\* "x"
R_x == <<"x">>

\* "traefik_http_routers_w-d_rule"
K_wd_rule ==
    <<"t", "r", "a", "e", "f", "i", "k", "_", "h", "t", "t", "p", "_", "r", "o", "u", "t",
      "e", "r", "s", "_", "w", "-", "d", "_", "r", "u", "l", "e">>

\* "traefik_http_routers_w-d_middlewares"
K_wd_middlewares ==
    <<"t", "r", "a", "e", "f", "i", "k", "_", "h", "t", "t", "p", "_", "r", "o", "u", "t",
      "e", "r", "s", "_", "w", "-", "d", "_", "m", "i", "d", "d", "l", "e", "w", "a", "r",
      "e", "s">>

\* "traefik_http_routers_x_rule"
K_x_rule ==
    <<"t", "r", "a", "e", "f", "i", "k", "_", "h", "t", "t", "p", "_", "r", "o", "u", "t",
      "e", "r", "s", "_", "x", "_", "r", "u", "l", "e">>

\* "traefik_http_routers_x_service"
K_x_service ==
    <<"t", "r", "a", "e", "f", "i", "k", "_", "h", "t", "t", "p", "_", "r", "o", "u", "t",
      "e", "r", "s", "_", "x", "_", "s", "e", "r", "v", "i", "c", "e">>

\* "traefik_http_routers_w-d_service"
K_wd_service ==
    <<"t", "r", "a", "e", "f", "i", "k", "_", "h", "t", "t", "p", "_", "r", "o", "u", "t",
      "e", "r", "s", "_", "w", "-", "d", "_", "s", "e", "r", "v", "i", "c", "e">>

\* "traefik_http_routers_traefik-api_rule"
K_api_rule ==
    <<"t", "r", "a", "e", "f", "i", "k", "_", "h", "t", "t", "p", "_", "r", "o", "u", "t",
      "e", "r", "s", "_", "t", "r", "a", "e", "f", "i", "k", "-", "a", "p", "i", "_", "r",
      "u", "l", "e">>

\* "traefik_http_routers_z"
K_short ==
    <<"t", "r", "a", "e", "f", "i", "k", "_", "h", "t", "t", "p", "_", "r", "o", "u", "t",
      "e", "r", "s", "_", "z">>

\* "managed_by"
K_other == <<"m", "a", "n", "a", "g", "e", "d", "_", "b", "y">>

\* "false"
V_false == <<"f", "a", "l", "s", "e">>

\* "Host('c')"
V_rule_c == <<"H", "o", "s", "t", "(", "BQ", "c", "BQ", ")">>

\* "Host('d')"
V_rule_d == <<"H", "o", "s", "t", "(", "BQ", "d", "BQ", ")">>

\* "Host('e')"
V_rule_e == <<"H", "o", "s", "t", "(", "BQ", "e", "BQ", ")">>

\* "Path('/x')"
V_rule_x == <<"P", "a", "t", "h", "(", "BQ", "/", "x", "BQ", ")">>

\* "Path('/y')"
V_rule_y == <<"P", "a", "t", "h", "(", "BQ", "/", "y", "BQ", ")">>

\* "Path('/t')"
V_rule_t == <<"P", "a", "t", "h", "(", "BQ", "/", "t", "BQ", ")">>

\* "cat-auth__m-file"
V_mws_cat ==
    <<"c", "a", "t", "-", "a", "u", "t", "h", "_", "_", "m", "-", "f", "i", "l", "e">>

\* "s1"
V_s1 == <<"s", "1">>

\* "s2"
V_s2 == <<"s", "2">>

\* "ops"
V_ops == <<"o", "p", "s">>

\* "cat-auth"
MW_cat_auth == <<"c", "a", "t", "-", "a", "u", "t", "h">>

\* "m@file"
MW_m_file == <<"m", "@", "f", "i", "l", "e">>

\* a nil map
NilLabels == <<>>

\* the services the Cloud Run API can report
Catalogue ==
    {[Name |-> SVC_cat, URL |-> URL_a, TemplateLabels |-> NilLabels,
      Labels |-> (S_traefik_enable :> S_true) @@ (K_wd_rule :> V_rule_c) @@
                 (K_wd_middlewares :> V_mws_cat)],
     [Name |-> SVC_wd_stg, URL |-> URL_b, TemplateLabels |-> NilLabels,
      Labels |-> (S_traefik_enable :> S_true) @@ (K_wd_rule :> V_rule_d)],
     [Name |-> SVC_wd, URL |-> URL_c, TemplateLabels |-> NilLabels,
      Labels |-> (S_traefik_enable :> S_true) @@ (K_wd_rule :> V_rule_e)],
     [Name |-> SVC_plain, URL |-> URL_p, Labels |-> (K_other :> V_ops),
      TemplateLabels |-> (S_traefik_enable :> S_true) @@ (K_short :> V_ops)],
     [Name |-> SVC_off, URL |-> URL_o, TemplateLabels |-> NilLabels,
      Labels |-> (S_traefik_enable :> V_false) @@ (K_x_rule :> V_rule_x)],
     [Name |-> SVC_multi, URL |-> URL_m, TemplateLabels |-> NilLabels,
      Labels |-> (S_traefik_enable :> S_true) @@ (K_x_rule :> V_rule_x) @@
                 (K_x_service :> V_s1) @@ (K_wd_rule :> V_rule_y) @@ (K_wd_service :> V_s2)],
     [Name |-> SVC_admin, URL |-> URL_t, TemplateLabels |-> NilLabels,
      Labels |-> (S_traefik_enable :> S_true) @@ (K_api_rule :> V_rule_t)]}

\* what os.Getenv can hold for USER_AUTH_ENABLED and SKIP_AUTH_CHECK
Environments == [USER_AUTH_ENABLED : BOOLEAN, SKIP_AUTH_CHECK : BOOLEAN]

\* "home-index-a"
SVC_home_index_a == S_home_index \o <<"-", "a">>

\* "home-index-b"
SVC_home_index_b == S_home_index \o <<"-", "b">>

\* services whose name holds the identity marker: one that declares no
\* route, two that declare one
IdentityCatalogue ==
    {[Name |-> S_home_index, URL |-> URL_p, TemplateLabels |-> NilLabels,
      Labels |-> (S_traefik_enable :> S_true) @@ (K_short :> V_ops)],
     [Name |-> SVC_home_index_a, URL |-> URL_o, TemplateLabels |-> NilLabels,
      Labels |-> (S_traefik_enable :> S_true) @@ (K_x_rule :> V_rule_x)],
     [Name |-> SVC_home_index_b, URL |-> URL_m, TemplateLabels |-> NilLabels,
      Labels |-> (S_traefik_enable :> S_true) @@ (K_wd_rule :> V_rule_y)]}

\* "one"
SVC_one == <<"o", "n", "e">>

\* "two"
SVC_two == <<"t", "w", "o">>

\* "x-stg"
SVC_x_stg == <<"x", "-", "s", "t", "g">>

\* services that name their backend with a service label: "one" and "two"
\* both name it "s1"; "x-stg" names none and declares the route "x" of "one"
OverrideCatalogue ==
    {[Name |-> SVC_one, URL |-> URL_a, TemplateLabels |-> NilLabels,
      Labels |-> (S_traefik_enable :> S_true) @@ (K_x_rule :> V_rule_x) @@
                 (K_x_service :> V_s1)],
     [Name |-> SVC_two, URL |-> URL_b, TemplateLabels |-> NilLabels,
      Labels |-> (S_traefik_enable :> S_true) @@ (K_wd_rule :> V_rule_y) @@
                 (K_wd_service :> V_s1)],
     [Name |-> SVC_x_stg, URL |-> URL_c, TemplateLabels |-> NilLabels,
      Labels |-> (S_traefik_enable :> S_true) @@ (K_x_rule :> V_rule_e)]}

\* every service a directory can hold
AllServices == Catalogue \cup IdentityCatalogue \cup OverrideCatalogue

\* ------------------------------------------------------------------------
\* Discovery (provider/discovery.go)
\* ------------------------------------------------------------------------

hasTraefikEnable(labels) ==
    S_traefik_enable \in DOMAIN labels /\ labels[S_traefik_enable] = S_true

\* variant: only the labels of the service metadata are looked at
listedService_MetadataOnly(svc, projectID) ==
    IF hasTraefikEnable(svc.Labels)
    THEN <<[Name |-> svc.Name, URL |-> svc.URL, ProjectID |-> projectID, Labels |-> svc.Labels]>>
    ELSE <<>>

\* the CloudRunService built from one item of the response, <<>> when the
\* item is not enabled
listedService(svc, projectID) ==
    IF hasTraefikEnable(svc.Labels)
    THEN <<[Name |-> svc.Name, URL |-> svc.URL, ProjectID |-> projectID, Labels |-> svc.Labels]>>
    ELSE IF hasTraefikEnable(svc.TemplateLabels)
    THEN <<[Name |-> svc.Name, URL |-> svc.URL, ProjectID |-> projectID,
            Labels |-> svc.TemplateLabels]>>
    ELSE <<>>

RECURSIVE listItems(_, _)
listItems(items, projectID) ==
    IF items = <<>> THEN <<>>
    ELSE listedService(Head(items), projectID) \o listItems(Tail(items), projectID)

\* listServices: resp is what call.Do() answers
listServices(resp, projectID) ==
    IF resp.err # NoErr
    THEN [services |-> <<>>, err |-> "failed to list services"]
    ELSE [services |-> listItems(resp.Items, projectID), err |-> NoErr]

\* ------------------------------------------------------------------------
\* Per-backend assembly (provider.go: processService)
\* ------------------------------------------------------------------------

\* getStripPrefixMiddleware: the values the call can return, the prefix
\* loop visiting stripPrefixMap in any order
getStripPrefixMiddleware(routerName, rule) ==
    IF routerName \in DOMAIN stripPrefixMap
    THEN {stripPrefixMap[routerName]}
    ELSE LET hits == {prefix \in DOMAIN stripPrefixMap :
                        /\ HasPrefix(routerName, prefix \o <<"-">>)
                        /\ ~Contains(routerName, S_dash_c2)
                        /\ ~Contains(routerName, S_dash_extension)}
         IN  IF hits = {} THEN {EMPTY} ELSE {stripPrefixMap[prefix] : prefix \in hits}

\* variant: the middlewares of the label are never filtered
assembleRouter_NoFilter(routerName, routerConfig, authMiddlewareName, authMiddlewareCreated, skipAuthCheck, stripPrefixMiddleware) ==
    LET filtered == routerConfig.Middlewares
        hasStripPrefix == \E i \in 1..Len(filtered) :
                             Contains(filtered[i], S_strip) /\ Contains(filtered[i], S_dash_prefix)
        stripped == IF stripPrefixMiddleware # EMPTY /\ ~hasStripPrefix
                    THEN Append(filtered, stripPrefixMiddleware)
                    ELSE filtered
        hasServiceAuth == \E i \in 1..Len(stripped) :
                             \/ stripped[i] = authMiddlewareName
                             \/ stripped[i] = authMiddlewareName \o S_atfile
        authed == IF authMiddlewareCreated /\ ~hasServiceAuth
                  THEN <<authMiddlewareName>> \o stripped
                  ELSE stripped
        hasRetry == \E i \in 1..Len(authed) : authed[i] = S_retry
    IN  [routerConfig EXCEPT !.Middlewares = IF hasRetry THEN authed ELSE Append(authed, S_retry)]

\* the body of "for routerName, routerConfig := range routerConfigs" up to
\* the call of AddRouterWithSource
assembleRouter(routerName, routerConfig, authMiddlewareName, authMiddlewareCreated, skipAuthCheck, stripPrefixMiddleware) ==
    LET filtered == IF skipAuthCheck
                    THEN SelectSeq(routerConfig.Middlewares,
                                   LAMBDA mw : ~Contains(mw, S_auth_check))
                    ELSE routerConfig.Middlewares
        hasStripPrefix == \E i \in 1..Len(filtered) :
                             Contains(filtered[i], S_strip) /\ Contains(filtered[i], S_dash_prefix)
        stripped == IF stripPrefixMiddleware # EMPTY /\ ~hasStripPrefix
                    THEN Append(filtered, stripPrefixMiddleware)
                    ELSE filtered
        hasServiceAuth == \E i \in 1..Len(stripped) :
                             \/ stripped[i] = authMiddlewareName
                             \/ stripped[i] = authMiddlewareName \o S_atfile
        authed == IF authMiddlewareCreated /\ ~hasServiceAuth
                  THEN <<authMiddlewareName>> \o stripped
                  ELSE stripped
        hasRetry == \E i \in 1..Len(authed) : authed[i] = S_retry
    IN  [routerConfig EXCEPT !.Middlewares = IF hasRetry THEN authed ELSE Append(authed, S_retry)]

RECURSIVE addRouters(_, _, _, _)
addRouters(c, routerConfigs, routeOrder, sourceName) ==
    IF routeOrder = <<>> THEN c
    ELSE addRouters(AddRouterWithSource(c, Head(routeOrder), routerConfigs[Head(routeOrder)],
                                        sourceName),
                    routerConfigs, Tail(routeOrder), sourceName)

\* the label maps a listed service can carry
CatalogueLabels ==
    {svc.Labels : svc \in AllServices} \cup {svc.TemplateLabels : svc \in AllServices}

\* for every label map, one visiting order for each result extractRouterConfigs
\* can give on it
labelOrders ==
    [labels \in CatalogueLabels |->
        LET orders == KeyOrders(DOMAIN labels)
            results == {extractRouterConfigs(labels, o) : o \in orders}
        IN  {CHOOSE o \in orders : extractRouterConfigs(labels, o) = r : r \in results}]

\* extractRouterConfigs(labels) for each of these orders
routerConfigsOf ==
    [labels \in CatalogueLabels |->
        [order \in labelOrders[labels] |-> extractRouterConfigs(labels, order)]]

\* the visits that go with one visiting order of the label map, parsed being
\* what extractRouterConfigs gives on it
choicesFor(order, parsed) ==
    LET labelled == {n \in DOMAIN parsed : parsed[n].Service # EMPTY}
    IN  {[order |-> order, first |-> first, strip |-> strip, routeOrder |-> routeOrder] :
             first \in (IF labelled = {} THEN {EMPTY} ELSE labelled),
             strip \in {f \in [DOMAIN parsed ->
                                 UNION {getStripPrefixMiddleware(n, parsed[n].Rule) :
                                            n \in DOMAIN parsed}] :
                           \A n \in DOMAIN parsed :
                               f[n] \in getStripPrefixMiddleware(n, parsed[n].Rule)},
             routeOrder \in KeyOrders(DOMAIN parsed)}

\* the ways the maps of one processService call can be visited: the label
\* map, the router whose service label is seen first, the strip-prefix
\* table, the router map
processChoices(service) ==
    UNION {choicesFor(order, routerConfigsOf[service.Labels][order]) :
               order \in labelOrders[service.Labels]}

\* processService from "for routerName, routerConfig := range routerConfigs"
\* to its return: the routers are assembled and added, then the service
processRouters(service, withAuth, ch, serviceNameFromLabel, got, serviceToken, authMiddlewareName, finals) ==
    LET serviceConfig == [LoadBalancer |-> [Servers |-> <<[URL |-> service.URL]>>,
                                            PassHostHeader |-> FALSE]]
    IN  [err |-> NoErr,
         config |-> AddService(addRouters(withAuth, finals, ch.routeOrder, service.Name),
                               serviceNameFromLabel, serviceConfig),
         tm |-> got.tm, end |-> got.end, fetches |-> got.fetches, tokenErr |-> got.err,
         got |-> got,
         serviceToken |-> serviceToken, serviceName |-> serviceNameFromLabel,
         authMiddlewareName |-> authMiddlewareName, routers |-> finals]

\* processService from the check of the token to the auth middleware
processToken(service, config, osEnv, ch, routerConfigs, serviceNameFromLabel, got, serviceToken) ==
    LET authMiddlewareName == serviceNameFromLabel \o S_auth
        authMiddlewareCreated == serviceToken # EMPTY
        skipAuthCheck == osEnv.SKIP_AUTH_CHECK \/ ~osEnv.USER_AUTH_ENABLED
    IN  processRouters(service,
                       IF authMiddlewareCreated
                       THEN AddAuthMiddleware(config, authMiddlewareName, serviceToken)
                       ELSE config,
                       ch, serviceNameFromLabel, got, serviceToken, authMiddlewareName,
                       [n \in DOMAIN routerConfigs |->
                           assembleRouter(n, routerConfigs[n], authMiddlewareName,
                                          authMiddlewareCreated, skipAuthCheck,
                                          ch.strip[n])])

\* processService from the service name of the labels to the token
processNamed(service, config, osEnv, ch, parsed, serviceNameFromLabel, got) ==
    processToken(service, config, osEnv, ch,
                 [n \in DOMAIN parsed |->
                     IF parsed[n].Service = EMPTY
                     THEN [parsed[n] EXCEPT !.Service = serviceNameFromLabel]
                     ELSE parsed[n]],
                 serviceNameFromLabel, got,
                 IF got.err # NoErr THEN EMPTY
                 ELSE IF ~HasPrefix(got.token, S_eyJ) THEN EMPTY
                 ELSE got.token)

\* processService after extractRouterConfigs has given parsed
\* variant: no look at the number of routes before the credential is fetched
processExtracted_NoCheck(service, config, tm, t, env, osEnv, ch, parsed) ==
    processNamed(service, config, osEnv, ch, parsed,
                 IF ch.first = EMPTY THEN service.Name ELSE parsed[ch.first].Service,
                 GetToken(tm, service.URL, t, env))

processExtracted(service, config, tm, t, env, osEnv, ch, parsed) ==
    IF DOMAIN parsed = {}
    THEN [err |-> "no router labels found", config |-> config, tm |-> tm, end |-> t,
          fetches |-> <<>>, tokenErr |-> NoErr, got |-> <<>>, serviceToken |-> EMPTY,
          serviceName |-> EMPTY, authMiddlewareName |-> EMPTY, routers |-> <<>>]
    ELSE processNamed(service, config, osEnv, ch, parsed,
                      IF ch.first = EMPTY THEN service.Name ELSE parsed[ch.first].Service,
                      GetToken(tm, service.URL, t, env))

processService(service, config, tm, t, env, osEnv, ch) ==
    processExtracted(service, config, tm, t, env, osEnv, ch,
                     routerConfigsOf[service.Labels][ch.order])

\* the tail of updateConfig: forward-auth middlewares and the internal routers
finishConfig(config, homeIndexURL, osEnv) ==
    LET withForwardAuth ==
            IF osEnv.USER_AUTH_ENABLED /\ homeIndexURL # EMPTY
            THEN AddForwardAuthMiddleware(
                     AddForwardAuthMiddleware(
                         AddForwardAuthMiddleware(config, S_lab1_auth_check, homeIndexURL),
                         S_lab2_auth_check, homeIndexURL),
                     S_lab3_auth_check, homeIndexURL)
            ELSE config
    IN  AddTraefikInternalRouters(withForwardAuth)

\* ------------------------------------------------------------------------
\* State
\* ------------------------------------------------------------------------

VARIABLES
    tokenManager,   \* Provider.tokenManager: cache, devMode, metadataChecked, hasMetadata
    now,            \* time.Now(), seconds
    nFetch,         \* fetches issued so far
    advances,       \* clock advances so far
    lastCall,       \* the last TokenManager call and what it returned
    lastOk,         \* per audience: the token last fetched without error since the last
                    \* ClearCache, when and in which cycle
    osEnv,          \* os.Getenv: USER_AUTH_ENABLED == "true", SKIP_AUTH_CHECK == "true"
    directory,      \* what the Cloud Run API holds: per project an error or service names
    mode,           \* who runs the loop: "standalone" (Provider) or "plugin" (PluginProvider)
    cycle,          \* number of the updateConfig call under way or last finished
    pc,             \* "cycle", "send", "select", "handoff", "idle"
    config,         \* the DynamicConfig under construction
    proj,           \* index in ProjectIDs of the next project to list
    services,       \* the services of the current project not yet visited
    homeIndexURL,   \* updateConfig's homeIndexURL
    listed,         \* per project index: what listServices returned in this cycle
    processed,      \* the processService calls of this cycle: their labels, what
                    \* extractRouterConfigs gave on them, and their results
    configChan,     \* the channel Provider.updateConfig sends on
    cfgChan,        \* the channel PluginProvider.updateConfig sends on
    blockedSince,   \* when the channel send under way began to block
    updateErr,      \* what the last updateConfig of the loop returned
    goroutines,     \* per goroutine that calls the TokenManager: the method under way,
                    \* the statement it is at, its locals, what its last call returned
    mu,             \* TokenManager.mu: the goroutine holding the write lock (0: none)
                    \* and the goroutines holding the read lock
    lastAccess,     \* the last access to cache, metadataChecked or hasMetadata: who,
                    \* which field, read or write, and the lock the goroutine held
    stopChan,       \* Provider.stopChan / PluginProvider.stopChan: closed or not, and when
    tickerC,        \* ticker.C of pollLoop: the times of the ticks not yet received
    capacity,       \* cap() of the channel the caller gave to Start or Provide
    pollLoops,      \* runDaemon: the pollLoop goroutines that Start has spawned on
                    \* the one Provider, each with its position and its ticker
    daemon,         \* runDaemon: the position of its goroutine and its ticker
    applied         \* the last application of a function of the program to arguments
                    \* of its own: the function, the arguments, the result

tmVars == <<tokenManager, now, nFetch, advances, lastCall, lastOk>>

cycleVars == <<osEnv, directory, mode, cycle, pc, config, proj, services, homeIndexURL,
               listed, processed, configChan, cfgChan, blockedSince, updateErr>>

concVars == <<goroutines, mu, lastAccess>>

stopVars == <<stopChan, tickerC>>

startVars == <<capacity, pollLoops, daemon>>

pureVars == <<applied>>

vars == <<tokenManager, now, nFetch, advances, lastCall, lastOk,
          osEnv, directory, mode, cycle, pc, config, proj, services, homeIndexURL,
          listed, processed, configChan, cfgChan, blockedSince, updateErr,
          goroutines, mu, lastAccess, stopChan, tickerC, capacity, pollLoops, daemon, applied>>

\* the goroutines that call the TokenManager concurrently
Goroutines == {1, 2}

\* a goroutine that is in no TokenManager method
NoGoroutine ==
    [pc |-> "idle", op |-> "none", audience |-> EMPTY, cached |-> [ok |-> FALSE],
     token |-> EMPTY, ret |-> <<>>]

NoAccess == [g |-> 0, field |-> "none", kind |-> "none", held |-> "none"]

\* no function has been applied
NoApplication == [fn |-> "none", done |-> FALSE]

\* no concurrent caller, nobody holds the lock
NoCallers ==
    /\ goroutines = [g \in Goroutines |-> NoGoroutine]
    /\ mu = [writer |-> 0, readers |-> {}]
    /\ lastAccess = NoAccess

\* the caller's channel is the one of runOnce, make(chan *DynamicConfig, 1),
\* and no daemon runs
NoDaemon ==
    /\ capacity = ChanCap
    /\ pollLoops = <<>>
    /\ daemon = [pc |-> "none", tickerC |-> <<>>]

\* Stop has not been called and the ticker has not fired
NotStopped ==
    /\ stopChan = [closed |-> FALSE, at |-> 0]
    /\ tickerC = <<>>

\* every audience a call can name
URLs == Audiences \cup {svc.URL : svc \in Catalogue}

NoPrev == [token |-> EMPTY, at |-> -1, cycle |-> 0, cached |-> FALSE]
NoCall == [op |-> "none"]

\* the answers of the environment to the next fetch
Envs(delays) ==
    {[meta |-> MetaResponse(mk, nFetch + 1), adc |-> AdcResponse(ak, nFetch + 1), delay |-> d] :
        mk \in MetaKinds, ak \in AdcKinds, d \in delays}

\* the answers met while a cycle runs: each source answers well, answers
\* with something that is no identity token, or fails
CycleEnvs ==
    {[meta |-> MetaResponse(mk, nFetch + 1), adc |-> AdcResponse(ak, nFetch + 1), delay |-> 0] :
        mk \in {"ok", "no such host"}, ak \in {"ok", "opaque", "token error"}}

\* one environment for each result GetToken(audience) can give now
TokenEnvs(audience) ==
    LET results == {GetToken(tokenManager, audience, now, e) : e \in CycleEnvs}
    IN  {CHOOSE e \in CycleEnvs : GetToken(tokenManager, audience, now, e) = r : r \in results}

\* the record of one GetToken call
CallRecord(audience, r) ==
    [op |-> "GetToken", audience |-> audience, start |-> now, token |-> r.token,
     err |-> r.err, fetches |-> r.fetches, prev |-> lastOk[audience], cycle |-> cycle]

\* lastOk after one GetToken call: a fetched token replaces the entry
OkAfter(audience, r) ==
    IF r.err = NoErr /\ r.fetches # <<>>
    THEN [lastOk EXCEPT ![audience] =
             [token |-> r.token, at |-> r.end, cycle |-> cycle,
              cached |-> /\ audience \in DOMAIN r.tm.cache
                         /\ r.tm.cache[audience].Token = r.token]]
    ELSE lastOk

\* how far the clock may jump in one step
AdvanceSteps == {1, TokenTTL - 1, TokenTTL}

\* Config.ProjectIDs
ProjectIDs == <<"labs", "home">>

NoDirectory == [p \in 1..Len(ProjectIDs) |-> [err |-> NoErr, Items |-> <<>>]]

IdleCycle ==
    /\ osEnv = [USER_AUTH_ENABLED |-> FALSE, SKIP_AUTH_CHECK |-> FALSE]
    /\ directory = NoDirectory
    /\ mode = "standalone"
    /\ cycle = 0
    /\ pc = "idle"
    /\ config = NewDynamicConfig
    /\ proj = 1
    /\ services = <<>>
    /\ homeIndexURL = EMPTY
    /\ listed = <<>>
    /\ processed = <<>>
    /\ configChan = <<>>
    /\ cfgChan = <<>>
    /\ blockedSince = 0
    /\ updateErr = "none"

\* ------------------------------------------------------------------------
\* Credential manager on its own: any sequence of calls
\* ------------------------------------------------------------------------

InitTM ==
    /\ tokenManager \in {NewTokenManager(dev) : dev \in BOOLEAN}
    /\ now = 0
    /\ nFetch = 0
    /\ advances = 0
    /\ lastCall = NoCall
    /\ lastOk = [a \in URLs |-> NoPrev]
    /\ IdleCycle
    /\ NoCallers
    /\ applied = NoApplication
    /\ NotStopped
    /\ NoDaemon

CallGetToken ==
    \E audience \in Audiences, env \in Envs({0, FetchTimeout}) :
        LET r == GetToken(tokenManager, audience, now, env)
        IN  /\ nFetch < MaxFetches
            /\ tokenManager' = r.tm
            /\ now' = r.end
            /\ nFetch' = IF r.fetches = <<>> THEN nFetch ELSE nFetch + 1
            /\ lastCall' = CallRecord(audience, r)
            /\ lastOk' = OkAfter(audience, r)
            /\ UNCHANGED advances
            /\ UNCHANGED cycleVars
            /\ UNCHANGED concVars
            /\ UNCHANGED startVars
            /\ UNCHANGED pureVars
            /\ UNCHANGED stopVars

CallClearCache ==
    /\ tokenManager' = ClearCache(tokenManager)
    /\ lastCall' = [op |-> "ClearCache"]
    /\ lastOk' = [a \in URLs |-> NoPrev]
    /\ UNCHANGED <<now, nFetch, advances>>
    /\ UNCHANGED cycleVars
    /\ UNCHANGED concVars
    /\ UNCHANGED startVars
    /\ UNCHANGED pureVars
    /\ UNCHANGED stopVars

CallCacheStats ==
    /\ lastCall' = [op |-> "CacheStats", stats |-> CacheStats(tokenManager, now)]
    /\ UNCHANGED <<tokenManager, now, nFetch, advances, lastOk>>
    /\ UNCHANGED cycleVars
    /\ UNCHANGED concVars
    /\ UNCHANGED startVars
    /\ UNCHANGED pureVars
    /\ UNCHANGED stopVars

Advance ==
    \E d \in AdvanceSteps :
        /\ advances < MaxAdvances
        /\ now' = now + d
        /\ advances' = advances + 1
        /\ UNCHANGED <<tokenManager, nFetch, lastCall, lastOk>>
        /\ UNCHANGED cycleVars
        /\ UNCHANGED concVars
        /\ UNCHANGED startVars
        /\ UNCHANGED pureVars
        /\ UNCHANGED stopVars

NextTM ==
    \/ CallGetToken
    \/ CallClearCache
    \/ CallCacheStats
    \/ Advance

SpecTM == InitTM /\ [][NextTM]_vars

\* ------------------------------------------------------------------------
\* One reconciliation cycle: Provider.updateConfig
\* ------------------------------------------------------------------------

CatalogueNames == {svc.Name : svc \in Catalogue}

CatalogueService(name) == CHOOSE svc \in AllServices : svc.Name = name

\* what the API can answer for one project: an error, or distinct services
\* in any order
DirectoryResponses ==
    {[err |-> "api error", Items |-> <<>>]} \cup
    {[err |-> NoErr, Items |-> items] :
        items \in UNION {{s \in [1..n -> CatalogueNames] : \A i, j \in 1..n : i # j => s[i] # s[j]} :
                            n \in 0..MaxServices}}

\* the directories with at most n services
Directories(n) ==
    {d \in [1..Len(ProjectIDs) -> DirectoryResponses] :
        Len(d[1].Items) + Len(d[2].Items) <= n}

InitCycle ==
    /\ tokenManager \in {NewTokenManager(dev) : dev \in BOOLEAN}
    /\ now = 0
    /\ nFetch = 0
    /\ advances = 0
    /\ lastCall = NoCall
    /\ lastOk = [a \in URLs |-> NoPrev]
    /\ osEnv = [USER_AUTH_ENABLED |-> FALSE, SKIP_AUTH_CHECK |-> FALSE]
    /\ directory \in Directories(MaxServices)
    /\ mode = "standalone"
    /\ cycle = 1
    /\ pc = "cycle"
    /\ config = NewDynamicConfig
    /\ proj = 1
    /\ services = <<>>
    /\ homeIndexURL = EMPTY
    /\ listed = <<>>
    /\ processed = <<>>
    /\ configChan = <<>>
    /\ cfgChan = <<>>
    /\ blockedSince = 0
    /\ updateErr = "none"
    /\ NoCallers
    /\ applied = NoApplication
    /\ NotStopped
    /\ NoDaemon

\* p.listServices(...) for the next project; on error the project is skipped
ListProject ==
    /\ pc = "cycle"
    /\ services = <<>>
    /\ proj <= Len(ProjectIDs)
    /\ LET resp == [err |-> directory[proj].err,
                    Items |-> [i \in 1..Len(directory[proj].Items) |->
                                  CatalogueService(directory[proj].Items[i])]]
           r == listServices(resp, ProjectIDs[proj])
       IN  /\ services' = r.services
           /\ listed' = Append(listed,
                  [err |-> r.err,
                   names |-> [i \in 1..Len(r.services) |-> r.services[i].Name]])
    /\ proj' = proj + 1
    /\ UNCHANGED <<osEnv, directory, mode, cycle, pc, config, homeIndexURL, processed,
                   configChan, cfgChan, blockedSince, updateErr>>
    /\ UNCHANGED tmVars
    /\ UNCHANGED concVars
    /\ UNCHANGED startVars
    /\ UNCHANGED pureVars
    /\ UNCHANGED stopVars

\* one iteration of "for _, service := range services"
HandleService ==
    /\ pc = "cycle"
    /\ services # <<>>
    /\ LET service == Head(services)
       IN  IF hasTraefikEnable(service.Labels)
           THEN \E ch \in processChoices(service), env \in TokenEnvs(service.URL) :
                   \E r \in {processService(service, config, tokenManager, now, env, osEnv, ch)} :
                       /\ config' = r.config
                       /\ tokenManager' = r.tm
                       /\ now' = r.end
                       /\ nFetch' = IF r.fetches = <<>> THEN nFetch ELSE nFetch + 1
                       /\ lastCall' = IF r.err = NoErr
                                      THEN CallRecord(service.URL, r.got)
                                      ELSE lastCall
                       /\ lastOk' = IF r.err = NoErr THEN OkAfter(service.URL, r.got) ELSE lastOk
                       /\ processed' = Append(processed,
                              [Name |-> service.Name, project |-> proj - 1, err |-> r.err,
                               tokenErr |-> r.tokenErr,
                               serviceToken |-> r.serviceToken, serviceName |-> r.serviceName,
                               authMiddlewareName |-> r.authMiddlewareName,
                               routers |-> r.routers,
                               Labels |-> service.Labels,
                               parsed |-> routerConfigsOf[service.Labels][ch.order]])
                       /\ homeIndexURL' =
                              IF /\ r.err = NoErr
                                 /\ Contains(service.Name, S_home_index)
                                 /\ service.URL # EMPTY
                              THEN service.URL
                              ELSE homeIndexURL
           ELSE UNCHANGED <<config, tokenManager, now, nFetch, lastCall, lastOk, processed,
                            homeIndexURL>>
    /\ services' = Tail(services)
    /\ UNCHANGED <<osEnv, directory, mode, cycle, pc, proj, listed, configChan, cfgChan,
                   blockedSince, updateErr, advances>>
    /\ UNCHANGED concVars
    /\ UNCHANGED startVars
    /\ UNCHANGED pureVars
    /\ UNCHANGED stopVars

\* cap(configChan) in Provider.updateConfig: the channel of the caller of
\* Start, which for PluginProvider.updateConfig is its internalConfigChan
configChanCap == IF mode = "plugin" THEN ChanCap ELSE capacity

\* after the last project: global synthesis, then "configChan <- config"
FinishCycle ==
    /\ pc = "cycle"
    /\ services = <<>>
    /\ proj > Len(ProjectIDs)
    /\ config' = finishConfig(config, homeIndexURL, osEnv)
    /\ IF Len(configChan) < configChanCap
       THEN /\ configChan' = Append(configChan, config')
            /\ pc' = IF mode = "plugin" THEN "select" ELSE "idle"
            /\ updateErr' = IF mode = "plugin" THEN updateErr ELSE NoErr
            /\ UNCHANGED blockedSince
       ELSE /\ pc' = "send"
            /\ blockedSince' = now
            /\ UNCHANGED <<configChan, updateErr>>
    /\ UNCHANGED <<osEnv, directory, mode, cycle, proj, services, homeIndexURL, listed,
                   processed, cfgChan>>
    /\ UNCHANGED tmVars
    /\ UNCHANGED concVars
    /\ UNCHANGED startVars
    /\ UNCHANGED pureVars
    /\ UNCHANGED stopVars

NextCycle ==
    \/ ListProject
    \/ HandleService
    \/ FinishCycle

SpecCycle == InitCycle /\ [][NextCycle]_vars

\* ------------------------------------------------------------------------
\* One cycle over a directory that holds identity services, under every
\* setting of USER_AUTH_ENABLED and SKIP_AUTH_CHECK
\* ------------------------------------------------------------------------

IdentityNames == {svc.Name : svc \in IdentityCatalogue} \cup {SVC_cat}

IdentityResponses ==
    {[err |-> "api error", Items |-> <<>>]} \cup
    {[err |-> NoErr, Items |-> items] :
        items \in UNION {{s \in [1..n -> IdentityNames] : \A i, j \in 1..n : i # j => s[i] # s[j]} :
                            n \in 0..MaxServices}}

IdentityDirectories(n) ==
    {d \in [1..Len(ProjectIDs) -> IdentityResponses] :
        Len(d[1].Items) + Len(d[2].Items) <= n}

InitIdentity ==
    /\ tokenManager = NewTokenManager(FALSE)
    /\ now = 0
    /\ nFetch = 0
    /\ advances = 0
    /\ lastCall = NoCall
    /\ lastOk = [a \in URLs |-> NoPrev]
    /\ osEnv \in Environments
    /\ directory \in IdentityDirectories(MaxServices)
    /\ mode = "standalone"
    /\ cycle = 1
    /\ pc = "cycle"
    /\ config = NewDynamicConfig
    /\ proj = 1
    /\ services = <<>>
    /\ homeIndexURL = EMPTY
    /\ listed = <<>>
    /\ processed = <<>>
    /\ configChan = <<>>
    /\ cfgChan = <<>>
    /\ blockedSince = 0
    /\ updateErr = "none"
    /\ NoCallers
    /\ applied = NoApplication
    /\ NotStopped
    /\ NoDaemon

SpecIdentity == InitIdentity /\ [][NextCycle]_vars

\* ------------------------------------------------------------------------
\* One cycle over a directory of services that name their backend
\* ------------------------------------------------------------------------

OverrideNames == {svc.Name : svc \in OverrideCatalogue} \cup {SVC_multi}

OverrideResponses ==
    {[err |-> "api error", Items |-> <<>>]} \cup
    {[err |-> NoErr, Items |-> items] :
        items \in UNION {{s \in [1..n -> OverrideNames] : \A i, j \in 1..n : i # j => s[i] # s[j]} :
                            n \in 0..MaxServices}}

OverrideDirectories(n) ==
    {d \in [1..Len(ProjectIDs) -> OverrideResponses] :
        Len(d[1].Items) + Len(d[2].Items) <= n}

InitOverride ==
    /\ tokenManager = NewTokenManager(FALSE)
    /\ now = 0
    /\ nFetch = 0
    /\ advances = 0
    /\ lastCall = NoCall
    /\ lastOk = [a \in URLs |-> NoPrev]
    /\ osEnv = [USER_AUTH_ENABLED |-> FALSE, SKIP_AUTH_CHECK |-> FALSE]
    /\ directory \in OverrideDirectories(MaxServices)
    /\ mode = "standalone"
    /\ cycle = 1
    /\ pc = "cycle"
    /\ config = NewDynamicConfig
    /\ proj = 1
    /\ services = <<>>
    /\ homeIndexURL = EMPTY
    /\ listed = <<>>
    /\ processed = <<>>
    /\ configChan = <<>>
    /\ cfgChan = <<>>
    /\ blockedSince = 0
    /\ updateErr = "none"
    /\ NoCallers
    /\ applied = NoApplication
    /\ NotStopped
    /\ NoDaemon

SpecOverride == InitOverride /\ [][NextCycle]_vars

\* ------------------------------------------------------------------------
\* The poll loops: Provider.Start/pollLoop and PluginProvider.Provide/pollLoop
\* ------------------------------------------------------------------------

\* convertToTraefikConfig: routers and services field by field, of a
\* middleware only the custom request headers
convertToTraefikConfig(src) ==
    [Routers |-> [n \in DOMAIN src.Routers |->
                     [Rule |-> src.Routers[n].Rule, Service |-> src.Routers[n].Service,
                      Priority |-> src.Routers[n].Priority,
                      EntryPoints |-> src.Routers[n].EntryPoints,
                      Middlewares |-> src.Routers[n].Middlewares]],
     Services |-> [n \in DOMAIN src.Services |->
                     [LoadBalancer |->
                         [Servers |-> [i \in DOMAIN src.Services[n].LoadBalancer.Servers |->
                                          [URL |-> src.Services[n].LoadBalancer.Servers[i].URL]],
                          PassHostHeader |-> src.Services[n].LoadBalancer.PassHostHeader]]],
     Middlewares |-> [n \in DOMAIN src.Middlewares |->
                        IF src.Middlewares[n].Headers # NoHeaders
                        THEN [Headers |-> [CustomRequestHeaders |->
                                 src.Middlewares[n].Headers.CustomRequestHeaders]]
                        ELSE [Headers |-> NoHeaders]]]

\* the directories of the loop runs: one project holds at most one service
LoopDirectories ==
    {d \in Directories(1) : d[2] = [err |-> NoErr, Items |-> <<>>]}

\* how long a blocked or idle loop may be left alone in one step
WaitSteps == {HandoffTimeout + 1, TokenTTL}

\* Start (Provider) or Provide (PluginProvider) has been called and the
\* first updateConfig begins
InitLoop ==
    /\ tokenManager \in {NewTokenManager(dev) : dev \in BOOLEAN}
    /\ now = 0
    /\ nFetch = 0
    /\ advances = 0
    /\ lastCall = NoCall
    /\ lastOk = [a \in URLs |-> NoPrev]
    /\ osEnv = [USER_AUTH_ENABLED |-> FALSE, SKIP_AUTH_CHECK |-> FALSE]
    /\ directory \in LoopDirectories
    /\ mode \in {"standalone", "plugin"}
    /\ cycle = 1
    /\ pc = "cycle"
    /\ config = NewDynamicConfig
    /\ proj = 1
    /\ services = <<>>
    /\ homeIndexURL = EMPTY
    /\ listed = <<>>
    /\ processed = <<>>
    /\ configChan = <<>>
    /\ cfgChan = <<>>
    /\ blockedSince = 0
    /\ updateErr = "none"
    /\ NoCallers
    /\ applied = NoApplication
    /\ NotStopped
    /\ NoDaemon

\* the sender blocked in "configChan <- config" gets its slot
CompleteSend ==
    /\ pc = "send"
    /\ Len(configChan) < configChanCap
    /\ configChan' = Append(configChan, config)
    /\ pc' = IF mode = "plugin" THEN "select" ELSE "idle"
    /\ updateErr' = IF mode = "plugin" THEN updateErr ELSE NoErr
    /\ UNCHANGED <<osEnv, directory, mode, cycle, config, proj, services, homeIndexURL,
                   listed, processed, cfgChan, blockedSince>>
    /\ UNCHANGED tmVars
    /\ UNCHANGED concVars
    /\ UNCHANGED startVars
    /\ UNCHANGED pureVars
    /\ UNCHANGED stopVars

\* Provider.pollLoop, case <-ticker.C: the next updateConfig begins
\* variant: the cycle goes on with the configuration of the cycle before
PollTick_KeepsConfig ==
    /\ mode = "standalone"
    /\ pc = "idle"
    /\ cycle < MaxCycles
    /\ now' = now + PollInterval
    /\ cycle' = cycle + 1
    /\ pc' = "cycle"
    /\ config' = config
    /\ proj' = 1
    /\ services' = <<>>
    /\ homeIndexURL' = EMPTY
    /\ listed' = <<>>
    /\ processed' = <<>>
    /\ UNCHANGED <<tokenManager, nFetch, advances, lastCall, lastOk>>
    /\ UNCHANGED <<osEnv, directory, mode, configChan, cfgChan, blockedSince, updateErr>>
    /\ UNCHANGED concVars
    /\ UNCHANGED startVars
    /\ UNCHANGED pureVars
    /\ UNCHANGED stopVars

PollTick ==
    /\ mode = "standalone"
    /\ pc = "idle"
    /\ cycle < MaxCycles
    /\ now' = now + PollInterval
    /\ cycle' = cycle + 1
    /\ pc' = "cycle"
    /\ config' = NewDynamicConfig
    /\ proj' = 1
    /\ services' = <<>>
    /\ homeIndexURL' = EMPTY
    /\ listed' = <<>>
    /\ processed' = <<>>
    /\ UNCHANGED <<tokenManager, nFetch, advances, lastCall, lastOk>>
    /\ UNCHANGED <<osEnv, directory, mode, configChan, cfgChan, blockedSince, updateErr>>
    /\ UNCHANGED concVars
    /\ UNCHANGED startVars
    /\ UNCHANGED pureVars
    /\ UNCHANGED stopVars

\* PluginProvider.pollLoop, case <-ticker.C: updateConfig makes a Provider
\* with provider.New, a channel of one slot, and calls Start on it
PluginPollTick ==
    /\ mode = "plugin"
    /\ pc = "idle"
    /\ cycle < MaxCycles
    /\ now' = now + PollInterval
    /\ cycle' = cycle + 1
    /\ pc' = "cycle"
    /\ tokenManager' = NewTokenManager(tokenManager.devMode)
    /\ configChan' = <<>>
    /\ config' = NewDynamicConfig
    /\ proj' = 1
    /\ services' = <<>>
    /\ homeIndexURL' = EMPTY
    /\ listed' = <<>>
    /\ processed' = <<>>
    /\ UNCHANGED <<nFetch, advances, lastCall, lastOk>>
    /\ UNCHANGED <<osEnv, directory, mode, cfgChan, blockedSince, updateErr>>
    /\ UNCHANGED concVars
    /\ UNCHANGED startVars
    /\ UNCHANGED pureVars
    /\ UNCHANGED stopVars

\* PluginProvider.updateConfig, the select after Start has returned
PluginSelect ==
    /\ pc = "select"
    /\ IF configChan # <<>>
       THEN /\ configChan' = Tail(configChan)
            /\ IF Len(cfgChan) < capacity
               THEN /\ cfgChan' = Append(cfgChan, convertToTraefikConfig(Head(configChan)))
                    /\ pc' = "idle"
                    /\ updateErr' = NoErr
                    /\ UNCHANGED blockedSince
               ELSE /\ pc' = "handoff"
                    /\ blockedSince' = now
                    /\ UNCHANGED <<cfgChan, updateErr>>
            /\ UNCHANGED now
       ELSE /\ now' = now + HandoffTimeout
            /\ pc' = "idle"
            /\ updateErr' = "timeout waiting for configuration"
            /\ UNCHANGED <<configChan, cfgChan, blockedSince>>
    /\ UNCHANGED <<tokenManager, nFetch, advances, lastCall, lastOk>>
    /\ UNCHANGED <<osEnv, directory, mode, cycle, config, proj, services, homeIndexURL,
                   listed, processed>>
    /\ UNCHANGED concVars
    /\ UNCHANGED startVars
    /\ UNCHANGED pureVars
    /\ UNCHANGED stopVars

\* the sender blocked in "cfgChan <- traefikConfig" gets its slot
PluginCompleteHandoff ==
    /\ pc = "handoff"
    /\ Len(cfgChan) < capacity
    /\ cfgChan' = Append(cfgChan, convertToTraefikConfig(config))
    /\ pc' = "idle"
    /\ updateErr' = NoErr
    /\ UNCHANGED <<osEnv, directory, mode, cycle, config, proj, services, homeIndexURL,
                   listed, processed, configChan, blockedSince>>
    /\ UNCHANGED tmVars
    /\ UNCHANGED concVars
    /\ UNCHANGED startVars
    /\ UNCHANGED pureVars
    /\ UNCHANGED stopVars

\* the consumer takes a configuration from the channel it was given
Consume ==
    /\ IF mode = "plugin"
       THEN cfgChan # <<>> /\ cfgChan' = Tail(cfgChan) /\ UNCHANGED configChan
       ELSE configChan # <<>> /\ configChan' = Tail(configChan) /\ UNCHANGED cfgChan
    /\ UNCHANGED <<osEnv, directory, mode, cycle, pc, config, proj, services, homeIndexURL,
                   listed, processed, blockedSince, updateErr>>
    /\ UNCHANGED tmVars
    /\ UNCHANGED concVars
    /\ UNCHANGED startVars
    /\ UNCHANGED pureVars
    /\ UNCHANGED stopVars

\* time passes while the loop waits for its ticker or for the consumer
Wait ==
    \E d \in WaitSteps :
        /\ pc \in {"idle", "send", "handoff"}
        /\ advances < MaxAdvances
        /\ now' = now + d
        /\ advances' = advances + 1
        /\ UNCHANGED <<tokenManager, nFetch, lastCall, lastOk>>
        /\ UNCHANGED cycleVars
        /\ UNCHANGED concVars
        /\ UNCHANGED startVars
        /\ UNCHANGED pureVars
        /\ UNCHANGED stopVars

NextLoop ==
    \/ ListProject
    \/ HandleService
    \/ FinishCycle
    \/ CompleteSend
    \/ PollTick
    \/ PluginPollTick
    \/ PluginSelect
    \/ PluginCompleteHandoff
    \/ Consume
    \/ Wait

SpecLoop == InitLoop /\ [][NextLoop]_vars

\* ------------------------------------------------------------------------
\* The poll loops over a directory that changes between two cycles
\* ------------------------------------------------------------------------

\* the Cloud Run API answers differently from the next listServices on
DirectoryChanges ==
    /\ pc = "idle"
    /\ cycle < MaxCycles
    /\ directory' \in LoopDirectories \ {directory}
    /\ UNCHANGED <<osEnv, mode, cycle, pc, config, proj, services, homeIndexURL, listed,
                   processed, configChan, cfgChan, blockedSince, updateErr>>
    /\ UNCHANGED tmVars
    /\ UNCHANGED concVars
    /\ UNCHANGED startVars
    /\ UNCHANGED pureVars
    /\ UNCHANGED stopVars

NextChurn ==
    \/ NextLoop
    \/ DirectoryChanges

SpecChurn == InitLoop /\ [][NextChurn]_vars

\* ------------------------------------------------------------------------
\* Start and Provide on a channel of any capacity: an unbuffered channel
\* passes a value only when sender and receiver meet
\* ------------------------------------------------------------------------

\* the capacities of the channel the caller hands to Start or Provide
Capacities == {0, 1}

InitStart ==
    /\ tokenManager \in {NewTokenManager(dev) : dev \in BOOLEAN}
    /\ now = 0
    /\ nFetch = 0
    /\ advances = 0
    /\ lastCall = NoCall
    /\ lastOk = [a \in URLs |-> NoPrev]
    /\ osEnv = [USER_AUTH_ENABLED |-> FALSE, SKIP_AUTH_CHECK |-> FALSE]
    /\ directory \in LoopDirectories
    /\ mode \in {"standalone", "plugin"}
    /\ cycle = 1
    /\ pc = "cycle"
    /\ config = NewDynamicConfig
    /\ proj = 1
    /\ services = <<>>
    /\ homeIndexURL = EMPTY
    /\ listed = <<>>
    /\ processed = <<>>
    /\ configChan = <<>>
    /\ cfgChan = <<>>
    /\ blockedSince = 0
    /\ updateErr = "none"
    /\ NoCallers
    /\ applied = NoApplication
    /\ NotStopped
    /\ capacity \in Capacities
    /\ pollLoops = <<>>
    /\ daemon = [pc |-> "none", tickerC |-> <<>>]

\* the consumer receives on the unbuffered channel while the sender is
\* blocked in "configChan <- config" or "cfgChan <- traefikConfig": the
\* value passes from hand to hand and the send returns
ReceiveUnbuffered ==
    /\ capacity = 0
    /\ pc = IF mode = "plugin" THEN "handoff" ELSE "send"
    /\ pc' = "idle"
    /\ updateErr' = NoErr
    /\ UNCHANGED <<osEnv, directory, mode, cycle, config, proj, services, homeIndexURL,
                   listed, processed, configChan, cfgChan, blockedSince>>
    /\ UNCHANGED tmVars
    /\ UNCHANGED concVars
    /\ UNCHANGED stopVars
    /\ UNCHANGED startVars
    /\ UNCHANGED pureVars

NextStart ==
    \/ ListProject
    \/ HandleService
    \/ FinishCycle
    \/ CompleteSend
    \/ PollTick
    \/ PluginPollTick
    \/ PluginSelect
    \/ PluginCompleteHandoff
    \/ Consume
    \/ Wait
    \/ ReceiveUnbuffered

SpecStart == InitStart /\ [][NextStart]_vars

\* ------------------------------------------------------------------------
\* The poll loops with their ticker and Stop: pollLoop's select between
\* ticker.C and stopChan.  pc = "idle" is the loop at its select, pc = "done"
\* the loop returned.  The loop receives at most MaxCycles ticks after the
\* cycle that Start or Provide runs itself.
\* ------------------------------------------------------------------------

InitStop ==
    /\ tokenManager \in {NewTokenManager(dev) : dev \in BOOLEAN}
    /\ now = 0
    /\ nFetch = 0
    /\ advances = 0
    /\ lastCall = NoCall
    /\ lastOk = [a \in URLs |-> NoPrev]
    /\ osEnv = [USER_AUTH_ENABLED |-> FALSE, SKIP_AUTH_CHECK |-> FALSE]
    /\ directory \in LoopDirectories
    /\ mode \in {"standalone", "plugin"}
    /\ cycle = 1
    /\ pc = "cycle"
    /\ config = NewDynamicConfig
    /\ proj = 1
    /\ services = <<>>
    /\ homeIndexURL = EMPTY
    /\ listed = <<>>
    /\ processed = <<>>
    /\ configChan = <<>>
    /\ cfgChan = <<>>
    /\ blockedSince = 0
    /\ updateErr = "none"
    /\ NoCallers
    /\ applied = NoApplication
    /\ NotStopped
    /\ NoDaemon

\* the ticker of pollLoop fires, PollInterval after its creation or its last
\* tick; ticker.C has one slot and a tick that finds it full is dropped.
\* The ticker exists from the start of pollLoop to its return.  No time
\* passes while the loop is at its select with something to receive.
TickerFires ==
    /\ pc # "done"
    /\ cycle > 1 \/ pc = "idle"
    /\ pc = "idle" => (~stopChan.closed /\ tickerC = <<>>)
    /\ advances < MaxAdvances
    /\ now' = now + PollInterval
    /\ advances' = advances + 1
    /\ tickerC' = IF Len(tickerC) < ChanCap THEN Append(tickerC, now') ELSE tickerC
    /\ UNCHANGED <<tokenManager, nFetch, lastCall, lastOk, stopChan>>
    /\ UNCHANGED cycleVars
    /\ UNCHANGED concVars
    /\ UNCHANGED startVars
    /\ UNCHANGED pureVars

\* Stop: close(p.stopChan).  A loop that waits in its select with no tick
\* to receive is woken by the close and returns.
CallStop ==
    /\ ~stopChan.closed
    /\ stopChan' = [closed |-> TRUE, at |-> now]
    /\ pc' = IF pc = "idle" /\ tickerC = <<>> THEN "done" ELSE pc
    /\ UNCHANGED tickerC
    /\ UNCHANGED tmVars
    /\ UNCHANGED <<osEnv, directory, mode, cycle, config, proj, services, homeIndexURL,
                   listed, processed, configChan, cfgChan, blockedSince, updateErr>>
    /\ UNCHANGED concVars
    /\ UNCHANGED startVars
    /\ UNCHANGED pureVars

\* pollLoop, case <-ticker.C: the next updateConfig begins; the one of
\* PluginProvider makes a Provider with provider.New and a channel of one slot
SelectTick ==
    /\ pc = "idle"
    /\ tickerC # <<>>
    /\ cycle <= MaxCycles
    /\ tickerC' = Tail(tickerC)
    /\ cycle' = cycle + 1
    /\ pc' = "cycle"
    /\ tokenManager' = IF mode = "plugin"
                       THEN NewTokenManager(tokenManager.devMode)
                       ELSE tokenManager
    /\ configChan' = IF mode = "plugin" THEN <<>> ELSE configChan
    /\ config' = NewDynamicConfig
    /\ proj' = 1
    /\ services' = <<>>
    /\ homeIndexURL' = EMPTY
    /\ listed' = <<>>
    /\ processed' = <<>>
    /\ UNCHANGED <<now, nFetch, advances, lastCall, lastOk, stopChan>>
    /\ UNCHANGED <<osEnv, directory, mode, cfgChan, blockedSince, updateErr>>
    /\ UNCHANGED concVars
    /\ UNCHANGED startVars
    /\ UNCHANGED pureVars

\* pollLoop, case <-p.stopChan: return
SelectStop ==
    /\ pc = "idle"
    /\ stopChan.closed
    /\ pc' = "done"
    /\ UNCHANGED <<osEnv, directory, mode, cycle, config, proj, services, homeIndexURL,
                   listed, processed, configChan, cfgChan, blockedSince, updateErr>>
    /\ UNCHANGED tmVars
    /\ UNCHANGED concVars
    /\ UNCHANGED startVars
    /\ UNCHANGED pureVars
    /\ UNCHANGED stopVars

NextStop ==
    \/ ListProject
    \/ HandleService
    \/ FinishCycle
    \/ CompleteSend
    \/ PluginSelect
    \/ PluginCompleteHandoff
    \/ Consume
    \/ TickerFires
    \/ CallStop
    \/ SelectTick
    \/ SelectStop

SpecStop == InitStop /\ [][NextStop]_vars

\* ------------------------------------------------------------------------
\* The daemon of the route generator: runDaemon calls generateAndWrite at
\* start and at every tick of its own ticker, and generateAndWrite calls
\* Start on the one Provider.  Every Start runs updateConfig on the daemon's
\* goroutine and then spawns a pollLoop.  The projects list no service, so
\* a cycle is the listing and the synthesis of the fixed routers.
\* ------------------------------------------------------------------------

\* what updateConfig sends when the projects list no service
emptyCycleConfig == finishConfig(NewDynamicConfig, EMPTY, osEnv)

\* the pollLoop that "go p.pollLoop(configChan)" starts: at its select
NewPollLoop == [pc |-> "select", tickerC |-> <<>>]

\* the pollLoop goroutines that have not returned
Running == {i \in DOMAIN pollLoops : pollLoops[i].pc # "done"}

\* the updateConfig calls under way on the Provider
CyclesInProgress ==
    Cardinality({i \in DOMAIN pollLoops : pollLoops[i].pc \in {"cycle", "send"}})
    + (IF daemon.pc \in {"Start:cycle", "Start:send"} THEN 1 ELSE 0)

\* a ticker with one slot receives a tick, which is dropped when the slot is taken
Tick(c, t) == IF Len(c) < ChanCap THEN Append(c, t) ELSE c

\* runDaemon has made its channel of one slot and its ticker, and the first
\* generateAndWrite has called Start, whose updateConfig begins
InitDaemon ==
    /\ tokenManager \in {NewTokenManager(dev) : dev \in BOOLEAN}
    /\ now = 0
    /\ nFetch = 0
    /\ advances = 0
    /\ lastCall = NoCall
    /\ lastOk = [a \in URLs |-> NoPrev]
    /\ IdleCycle
    /\ NoCallers
    /\ applied = NoApplication
    /\ NotStopped
    /\ capacity = ChanCap
    /\ pollLoops = <<>>
    /\ daemon = [pc |-> "Start:cycle", tickerC |-> <<>>]

\* Start on the daemon's goroutine: updateConfig ends with its send; when
\* the send returns, Start spawns a pollLoop and returns, and
\* generateAndWrite goes to its select.  A send that finds the channel full
\* blocks: the daemon is the only receiver of the channel.
DaemonStart ==
    /\ daemon.pc = "Start:cycle"
    /\ IF Len(configChan) < capacity
       THEN /\ configChan' = Append(configChan, emptyCycleConfig)
            /\ pollLoops' = Append(pollLoops, NewPollLoop)
            /\ daemon' = [daemon EXCEPT !.pc = "receive"]
       ELSE /\ daemon' = [daemon EXCEPT !.pc = "Start:send"]
            /\ UNCHANGED <<configChan, pollLoops>>
    /\ UNCHANGED <<osEnv, directory, mode, cycle, pc, config, proj, services, homeIndexURL,
                   listed, processed, cfgChan, blockedSince, updateErr>>
    /\ UNCHANGED <<tmVars, concVars, pureVars, stopVars, capacity>>

\* generateAndWrite, the select after Start: the configuration is received
\* and written, or 60 s pass with nothing to receive
DaemonReceive ==
    /\ daemon.pc = "receive"
    /\ IF configChan # <<>>
       THEN configChan' = Tail(configChan) /\ UNCHANGED now
       ELSE now' = now + HandoffTimeout /\ UNCHANGED configChan
    /\ daemon' = [daemon EXCEPT !.pc = "select"]
    /\ UNCHANGED <<tokenManager, nFetch, advances, lastCall, lastOk>>
    /\ UNCHANGED <<osEnv, directory, mode, cycle, pc, config, proj, services, homeIndexURL,
                   listed, processed, cfgChan, blockedSince, updateErr>>
    /\ UNCHANGED <<concVars, pureVars, stopVars, capacity, pollLoops>>

\* runDaemon, case <-ticker.C: generateAndWrite calls Start again
DaemonSelectTick ==
    /\ daemon.pc = "select"
    /\ daemon.tickerC # <<>>
    /\ daemon' = [pc |-> "Start:cycle", tickerC |-> Tail(daemon.tickerC)]
    /\ UNCHANGED <<tmVars, cycleVars, concVars, pureVars, stopVars, capacity, pollLoops>>

\* runDaemon, case <-sigChan: p.Stop() closes stopChan and runDaemon
\* returns; the pollLoops that wait with no tick to receive return
DaemonSignal ==
    /\ daemon.pc = "select"
    /\ stopChan' = [closed |-> TRUE, at |-> now]
    /\ daemon' = [daemon EXCEPT !.pc = "stopped"]
    /\ pollLoops' = [i \in DOMAIN pollLoops |->
                        IF pollLoops[i].pc = "select" /\ pollLoops[i].tickerC = <<>>
                        THEN [pollLoops[i] EXCEPT !.pc = "done"]
                        ELSE pollLoops[i]]
    /\ UNCHANGED <<tmVars, cycleVars, concVars, pureVars, tickerC, capacity>>

\* PollInterval passes: the ticker of runDaemon and the ticker of every
\* pollLoop that has not returned fire
TickersFire ==
    /\ daemon.pc # "stopped"
    /\ advances < MaxAdvances
    /\ now' = now + PollInterval
    /\ advances' = advances + 1
    /\ daemon' = [daemon EXCEPT !.tickerC = Tick(daemon.tickerC, now')]
    /\ pollLoops' = [i \in DOMAIN pollLoops |->
                        IF pollLoops[i].pc # "done"
                        THEN [pollLoops[i] EXCEPT !.tickerC = Tick(pollLoops[i].tickerC, now')]
                        ELSE pollLoops[i]]
    /\ UNCHANGED <<tokenManager, nFetch, lastCall, lastOk>>
    /\ UNCHANGED <<cycleVars, concVars, pureVars, stopVars, capacity>>

\* pollLoop, case <-ticker.C: updateConfig begins
LoopSelectTick ==
    \E i \in DOMAIN pollLoops :
        /\ pollLoops[i].pc = "select"
        /\ pollLoops[i].tickerC # <<>>
        /\ pollLoops' = [pollLoops EXCEPT ![i] = [pc |-> "cycle", tickerC |-> Tail(pollLoops[i].tickerC)]]
        /\ UNCHANGED <<tmVars, cycleVars, concVars, pureVars, stopVars, capacity, daemon>>

\* pollLoop, case <-p.stopChan: return
LoopSelectStop ==
    \E i \in DOMAIN pollLoops :
        /\ pollLoops[i].pc = "select"
        /\ stopChan.closed
        /\ pollLoops' = [pollLoops EXCEPT ![i].pc = "done"]
        /\ UNCHANGED <<tmVars, cycleVars, concVars, pureVars, stopVars, capacity, daemon>>

\* updateConfig of a pollLoop reaches "configChan <- config"
LoopUpdateConfig ==
    \E i \in DOMAIN pollLoops :
        /\ pollLoops[i].pc = "cycle"
        /\ IF Len(configChan) < configChanCap
           THEN /\ configChan' = Append(configChan, emptyCycleConfig)
                /\ pollLoops' = [pollLoops EXCEPT ![i].pc = "select"]
           ELSE /\ pollLoops' = [pollLoops EXCEPT ![i].pc = "send"]
                /\ UNCHANGED configChan
        /\ UNCHANGED <<osEnv, directory, mode, cycle, pc, config, proj, services,
                       homeIndexURL, listed, processed, cfgChan, blockedSince, updateErr>>
        /\ UNCHANGED <<tmVars, concVars, pureVars, stopVars, capacity, daemon>>

\* a pollLoop blocked in "configChan <- config" gets the slot
LoopCompleteSend ==
    \E i \in DOMAIN pollLoops :
        /\ pollLoops[i].pc = "send"
        /\ Len(configChan) < configChanCap
        /\ configChan' = Append(configChan, emptyCycleConfig)
        /\ pollLoops' = [pollLoops EXCEPT ![i].pc = "select"]
        /\ UNCHANGED <<osEnv, directory, mode, cycle, pc, config, proj, services,
                       homeIndexURL, listed, processed, cfgChan, blockedSince, updateErr>>
        /\ UNCHANGED <<tmVars, concVars, pureVars, stopVars, capacity, daemon>>

NextDaemon ==
    \/ DaemonStart
    \/ DaemonReceive
    \/ DaemonSelectTick
    \/ DaemonSignal
    \/ TickersFire
    \/ LoopSelectTick
    \/ LoopSelectStop
    \/ LoopUpdateConfig
    \/ LoopCompleteSend

SpecDaemon == InitDaemon /\ [][NextDaemon]_vars

\* ------------------------------------------------------------------------
\* One call of PluginProvider.updateConfig with the pollLoop that the Start
\* of its internal provider spawns.  configChan is internalConfigChan, one
\* slot; cfgChan is the channel Traefik gave to Provide, of capacity 0 or 1.
\* The directory is empty, so every cycle gives emptyCycleConfig.
\* ------------------------------------------------------------------------

InitInternal ==
    /\ tokenManager \in {NewTokenManager(dev) : dev \in BOOLEAN}
    /\ now = 0
    /\ nFetch = 0
    /\ advances = 0
    /\ lastCall = NoCall
    /\ lastOk = [a \in URLs |-> NoPrev]
    /\ osEnv \in Environments
    /\ directory = NoDirectory
    /\ mode = "plugin"
    /\ cycle = 1
    /\ pc = "cycle"
    /\ config = NewDynamicConfig
    /\ proj = 1
    /\ services = <<>>
    /\ homeIndexURL = EMPTY
    /\ listed = <<>>
    /\ processed = <<>>
    /\ configChan = <<>>
    /\ cfgChan = <<>>
    /\ blockedSince = 0
    /\ updateErr = "none"
    /\ NoCallers
    /\ applied = NoApplication
    /\ NotStopped
    /\ capacity \in Capacities
    /\ pollLoops = <<>>
    /\ daemon = [pc |-> "none", tickerC |-> <<>>]

\* internalProvider.Start(internalConfigChan): updateConfig sends into the
\* empty slot, then "go p.pollLoop(configChan)", and Start returns
InternalStart ==
    /\ pc = "cycle"
    /\ config' = emptyCycleConfig
    /\ configChan' = Append(configChan, emptyCycleConfig)
    /\ pollLoops' = Append(pollLoops, NewPollLoop)
    /\ pc' = "select"
    /\ UNCHANGED <<osEnv, directory, mode, cycle, proj, services, homeIndexURL, listed,
                   processed, cfgChan, blockedSince, updateErr>>
    /\ UNCHANGED <<tmVars, concVars, pureVars, stopVars, capacity, daemon>>

\* Stop of the internal provider: close(p.stopChan); a pollLoop that waits
\* in its select with no tick to receive returns
StoppedLoops ==
    [i \in DOMAIN pollLoops |->
        IF pollLoops[i].pc = "select" /\ pollLoops[i].tickerC = <<>>
        THEN [pollLoops[i] EXCEPT !.pc = "done"]
        ELSE pollLoops[i]]

\* the select of PluginProvider.updateConfig: the configuration is received
\* and converted and the send to cfgChan begins, or 60 s pass with nothing
\* to receive and the internal provider is stopped
InternalReceive ==
    /\ pc = "select"
    /\ IF configChan # <<>>
       THEN /\ configChan' = Tail(configChan)
            /\ config' = Head(configChan)
            /\ pc' = "handoff"
            /\ blockedSince' = now
            /\ UNCHANGED <<now, updateErr, stopChan, pollLoops>>
       ELSE /\ now' = now + HandoffTimeout
            /\ pc' = "idle"
            /\ updateErr' = "timeout waiting for configuration"
            /\ stopChan' = [closed |-> TRUE, at |-> now']
            /\ pollLoops' = StoppedLoops
            /\ UNCHANGED <<configChan, config, blockedSince>>
    /\ UNCHANGED <<tokenManager, nFetch, advances, lastCall, lastOk>>
    /\ UNCHANGED <<osEnv, directory, mode, cycle, proj, services, homeIndexURL, listed,
                   processed, cfgChan>>
    /\ UNCHANGED <<concVars, pureVars, tickerC, capacity, daemon>>

\* "cfgChan <- traefikConfig" returns, because the consumer receives
\* (capacity 0) or the slot is free, then internalProvider.Stop() and return
InternalHandoff ==
    /\ pc = "handoff"
    /\ capacity = 0 \/ Len(cfgChan) < capacity
    /\ cfgChan' = IF capacity = 0 THEN cfgChan
                  ELSE Append(cfgChan, convertToTraefikConfig(config))
    /\ stopChan' = [closed |-> TRUE, at |-> now]
    /\ pollLoops' = StoppedLoops
    /\ pc' = "idle"
    /\ updateErr' = NoErr
    /\ UNCHANGED <<osEnv, directory, mode, cycle, config, proj, services, homeIndexURL,
                   listed, processed, configChan, blockedSince>>
    /\ UNCHANGED <<tmVars, concVars, pureVars, tickerC, capacity, daemon>>

\* PollInterval passes while the consumer has not accepted the
\* configuration, or after the return: the ticker of every pollLoop that has
\* not returned fires
InternalTickersFire ==
    /\ pc \in {"select", "handoff", "idle"}
    /\ Running # {}
    /\ advances < MaxAdvances
    /\ now' = now + PollInterval
    /\ advances' = advances + 1
    /\ pollLoops' = [i \in DOMAIN pollLoops |->
                        IF pollLoops[i].pc # "done"
                        THEN [pollLoops[i] EXCEPT !.tickerC = Tick(pollLoops[i].tickerC, now')]
                        ELSE pollLoops[i]]
    /\ UNCHANGED <<tokenManager, nFetch, lastCall, lastOk>>
    /\ UNCHANGED <<cycleVars, concVars, pureVars, stopVars, capacity, daemon>>

NextInternal ==
    \/ InternalStart
    \/ InternalReceive
    \/ InternalHandoff
    \/ InternalTickersFire
    \/ LoopSelectTick
    \/ LoopSelectStop
    \/ LoopUpdateConfig
    \/ LoopCompleteSend

SpecInternal == InitInternal /\ [][NextInternal]_vars

\* ------------------------------------------------------------------------
\* The functions of the label parser and of the conflict resolver applied
\* to arguments of their own: label maps written with the six properties,
\* visited in every order, and pairs of a route name and a backend name
\* ------------------------------------------------------------------------

\* keys a label map of the parser runs holds at most
MaxLabels == 3

\* "traefik_http_routers_<name>_<property>"
RouterKey(name, property) == S_routers_prefix \o name \o <<"_">> \o property

\* "nope": no key of ruleMap
V_nope == <<"n", "o", "p", "e">>
\* " , "
V_blanks == <<" ", ",", " ">>
\* "web, tls"
V_web_tls == <<"w", "e", "b", ",", " ", "t", "l", "s">>
\* "50"
V_50 == <<"5", "0">>

\* the route names of the parser runs: one of no table, one of both tables
ParserNames == {R_x, N_lab1_c2}

ParserProperties == {S_rule, S_rule_id, S_priority, S_entrypoints}

\* the values a label of each property takes
ParserValues(property) ==
    CASE property = S_rule -> {V_rule_x, N_lab1}
      [] property = S_rule_id -> {N_lab1, V_nope}
      [] property = S_priority -> {V_50}
      [] property = S_entrypoints -> {EMPTY, V_blanks, V_web_tls}

ParserKeys == {RouterKey(n, p) : n \in ParserNames, p \in ParserProperties}

\* the property of a key of ParserKeys
PropertyOf(key) == SplitN(key, <<"_">>, 5)[5]

\* the route name of a key of ParserKeys
NameOf(key) == SplitN(key, <<"_">>, 5)[4]

LabelMaps ==
    UNION {{m \in [ks -> UNION {ParserValues(p) : p \in ParserProperties}] :
               \A k \in ks : m[k] \in ParserValues(PropertyOf(k))} :
           ks \in {ks \in SUBSET ParserKeys : Cardinality(ks) \in 1..MaxLabels}}

ExtractInputs ==
    UNION {{[fn |-> "extractRouterConfigs", labels |-> m, order |-> o, done |-> FALSE,
             routes |-> <<>>] : o \in KeyOrders(DOMAIN m)} : m \in LabelMaps}

\* backend names: a base name followed by up to two environment suffixes
BaseNames == {R_x, R_wd, SVC_wd, R_wd \o <<"-">> \o R_x}

SuffixRuns ==
    {<<>>} \cup {EnvSuffixes[i] : i \in DOMAIN EnvSuffixes}
           \cup {EnvSuffixes[i] \o EnvSuffixes[j] : i, j \in DOMAIN EnvSuffixes}

BackendNames == {b \o r : b \in BaseNames, r \in SuffixRuns}

DedicatedInputs ==
    {[fn |-> "isDedicatedService", routerName |-> R, serviceName |-> B, done |-> FALSE,
      dedicated |-> FALSE] : R \in {R_x, R_wd, SVC_wd}, B \in BackendNames}

\* AddAuthMiddleware on a new configuration: a middleware name, and a token
\* or the empty string
AuthInputs ==
    {[fn |-> "AddAuthMiddleware", name |-> n, token |-> t, done |-> FALSE,
      config |-> NewDynamicConfig] : n \in {MW_cat_auth, R_x \o S_auth}, t \in {EMPTY, FreshToken(1)}}

\* "m-file__cat-auth"
V_mws_last ==
    <<"m", "-", "f", "i", "l", "e", "_", "_", "c", "a", "t", "-", "a", "u", "t", "h">>

\* "lab1-auth-check__m-file"
V_mws_check == S_lab1_auth_check \o <<"_", "_", "m", "-", "f", "i", "l", "e">>

\* "m-file__m-file"
V_mws_twice ==
    <<"m", "-", "f", "i", "l", "e", "_", "_", "m", "-", "f", "i", "l", "e">>

\* the middlewares labels of the assembly runs: none, one that does not name
\* the auth middleware of the service, one that names it first, one that
\* names it last, one that names a middleware twice, one that names an
\* auth-check middleware
MiddlewareLabelMaps ==
    {(RouterKey(R_x, S_rule) :> V_rule_x)} \cup
    {(RouterKey(R_x, S_rule) :> V_rule_x) @@ (RouterKey(R_x, S_middlewares) :> v) :
         v \in {MW_m_file, V_mws_cat, V_mws_last, V_mws_twice, V_mws_check}}

\* "auth-check": a service name that holds the words of the filter
SVC_auth_check == S_auth_check

AssembleInputs ==
    UNION {{[fn |-> "assembleRouter", service |-> n, labels |-> m, order |-> o,
             token |-> t, env |-> e, done |-> FALSE, assembled |-> <<>>] :
                n \in {SVC_cat, SVC_auth_check}, o \in KeyOrders(DOMAIN m),
                t \in {EMPTY, FreshToken(1)}, e \in Environments} :
           m \in MiddlewareLabelMaps}

\* configurations Provider.updateConfig can produce: with or without the
\* credential middleware of a service, with or without the forward-auth
\* middlewares
ConvertInputs ==
    {[fn |-> "convertToTraefikConfig", done |-> FALSE, converted |-> <<>>,
      src |-> finishConfig(IF t = EMPTY
                           THEN AddService(NewDynamicConfig, SVC_cat,
                                           [LoadBalancer |-> [Servers |-> <<[URL |-> URL_a]>>,
                                                              PassHostHeader |-> FALSE]])
                           ELSE AddAuthMiddleware(NewDynamicConfig, MW_cat_auth, t),
                           h, e)] :
        t \in {EMPTY, FreshToken(1)}, h \in {EMPTY, URL_p}, e \in Environments}

InitPure ==
    /\ tokenManager = NewTokenManager(FALSE)
    /\ now = 0
    /\ nFetch = 0
    /\ advances = 0
    /\ lastCall = NoCall
    /\ lastOk = [a \in URLs |-> NoPrev]
    /\ IdleCycle
    /\ NoCallers
    /\ NotStopped
    /\ NoDaemon
    /\ applied \in ExtractInputs \cup DedicatedInputs \cup AuthInputs \cup AssembleInputs
                     \cup ConvertInputs

ApplyExtractRouterConfigs ==
    /\ applied.fn = "extractRouterConfigs"
    /\ ~applied.done
    /\ applied' = [applied EXCEPT !.done = TRUE,
                                  !.routes = extractRouterConfigs(applied.labels, applied.order)]
    /\ UNCHANGED <<tmVars, cycleVars, concVars, stopVars, startVars>>

ApplyIsDedicatedService ==
    /\ applied.fn = "isDedicatedService"
    /\ ~applied.done
    /\ applied' = [applied EXCEPT !.done = TRUE,
                                  !.dedicated = isDedicatedService(applied.routerName,
                                                                applied.serviceName)]
    /\ UNCHANGED <<tmVars, cycleVars, concVars, stopVars, startVars>>

ApplyAddAuthMiddleware ==
    /\ applied.fn = "AddAuthMiddleware"
    /\ ~applied.done
    /\ applied' = [applied EXCEPT !.done = TRUE,
                                  !.config = AddAuthMiddleware(NewDynamicConfig, applied.name,
                                                               applied.token)]
    /\ UNCHANGED <<tmVars, cycleVars, concVars, stopVars, startVars>>

\* processService on a service of one route "x" with no service label, from
\* extractRouterConfigs to the router handed to AddRouterWithSource
ApplyAssembleRouter ==
    /\ applied.fn = "assembleRouter"
    /\ ~applied.done
    /\ \E strip \in getStripPrefixMiddleware(R_x, V_rule_x) :
           applied' = [applied EXCEPT
               !.done = TRUE,
               !.assembled =
                   assembleRouter(R_x,
                                  [extractRouterConfigs(applied.labels, applied.order)[R_x]
                                       EXCEPT !.Service = applied.service],
                                  applied.service \o S_auth, applied.token # EMPTY,
                                  applied.env.SKIP_AUTH_CHECK \/ ~applied.env.USER_AUTH_ENABLED,
                                  strip)]
    /\ UNCHANGED <<tmVars, cycleVars, concVars, stopVars, startVars>>

ApplyConvertToTraefikConfig ==
    /\ applied.fn = "convertToTraefikConfig"
    /\ ~applied.done
    /\ applied' = [applied EXCEPT !.done = TRUE,
                                  !.converted = convertToTraefikConfig(applied.src)]
    /\ UNCHANGED <<tmVars, cycleVars, concVars, stopVars, startVars>>

NextPure ==
    \/ ApplyExtractRouterConfigs
    \/ ApplyIsDedicatedService
    \/ ApplyAddAuthMiddleware
    \/ ApplyAssembleRouter
    \/ ApplyConvertToTraefikConfig

SpecPure == InitPure /\ [][NextPure]_vars

\* ------------------------------------------------------------------------
\* The TokenManager called from several goroutines: one step per statement
\* that touches the lock or the shared fields.  The pc of a goroutine names
\* the method and the source line it is about to execute.  The calls overlap
\* within one instant: the clock stands still.
\* ------------------------------------------------------------------------

\* the lock goroutine g holds on tm.mu
Held(g) ==
    IF mu.writer = g THEN "W" ELSE IF g \in mu.readers THEN "R" ELSE "none"

Access(g, field, kind) == [g |-> g, field |-> field, kind |-> kind, held |-> Held(g)]

\* goroutine g moves to statement pc2
Goto(g, pc2) == [goroutines EXCEPT ![g].pc = pc2]

\* goroutine g returns ret from its method
Return(g, ret) == [goroutines EXCEPT ![g] = [NoGoroutine EXCEPT !.ret = ret]]

\* the answers of the two sources to the next fetch of a concurrent caller
ConcEnvs ==
    {[meta |-> MetaResponse(mk, nFetch + 1), adc |-> AdcResponse(ak, nFetch + 1)] :
        mk \in {"ok", "no such host", "timeout"}, ak \in {"ok", "empty"}}

\* the GetToken calls under way
InFlight == {g \in Goroutines : goroutines[g].op = "GetToken"}

\* everything a TokenManager statement leaves alone besides the manager,
\* the lock, the goroutines and the fetch count
restVars == <<now, advances, lastCall, lastOk, cycleVars, stopVars, startVars, pureVars>>

InitConc ==
    /\ tokenManager \in {NewTokenManager(dev) : dev \in BOOLEAN}
    /\ now = 0
    /\ nFetch = 0
    /\ advances = 0
    /\ lastCall = NoCall
    /\ lastOk = [a \in URLs |-> NoPrev]
    /\ IdleCycle
    /\ NoCallers
    /\ applied = NoApplication
    /\ NotStopped
    /\ NoDaemon

\* a goroutine enters GetToken, ClearCache, CacheStats or HasMetadataServer
GoCall ==
    \E g \in Goroutines, op \in {"GetToken", "ClearCache", "CacheStats", "HasMetadataServer"},
       audience \in Audiences :
        /\ goroutines[g].pc = "idle"
        /\ op = "GetToken" => nFetch + Cardinality(InFlight) < MaxFetches
        /\ op # "GetToken" => audience = URL_a
        /\ goroutines' = [goroutines EXCEPT ![g] =
               [NoGoroutine EXCEPT
                   !.op = op,
                   !.audience = IF op = "GetToken" THEN audience ELSE EMPTY,
                   !.pc = CASE op = "GetToken" -> "GetToken:48"
                            [] op = "ClearCache" -> "ClearCache:186"
                            [] op = "CacheStats" -> "CacheStats:193"
                            [] OTHER -> "HasMetadataServer:179"]]
        /\ UNCHANGED <<tokenManager, nFetch, mu, lastAccess>>
        /\ UNCHANGED restVars

\* tm.mu.RLock()
GoRLock ==
    \E g \in Goroutines :
        /\ goroutines[g].pc \in {"GetToken:48", "CacheStats:193", "HasMetadataServer:179"}
        /\ mu.writer = 0
        /\ mu' = [mu EXCEPT !.readers = @ \cup {g}]
        /\ goroutines' = Goto(g, CASE goroutines[g].pc = "GetToken:48" -> "GetToken:49"
                                   [] goroutines[g].pc = "CacheStats:193" -> "CacheStats:196"
                                   [] OTHER -> "HasMetadataServer:181")
        /\ UNCHANGED <<tokenManager, nFetch, lastAccess>>
        /\ UNCHANGED restVars

\* cached, ok := tm.cache[audience]
GoReadCache ==
    \E g \in Goroutines :
        /\ goroutines[g].pc = "GetToken:49"
        /\ lastAccess' = Access(g, "cache", "read")
        /\ goroutines' = [goroutines EXCEPT
               ![g].pc = "GetToken:50",
               ![g].cached =
                   IF goroutines[g].audience \in DOMAIN tokenManager.cache
                   THEN [ok |-> TRUE,
                         Token |-> tokenManager.cache[goroutines[g].audience].Token,
                         ExpiresAt |-> tokenManager.cache[goroutines[g].audience].ExpiresAt]
                   ELSE [ok |-> FALSE]]
        /\ UNCHANGED <<tokenManager, nFetch, mu>>
        /\ UNCHANGED restVars

\* tm.mu.RUnlock(), written out in GetToken and deferred in the other two
GoRUnlock ==
    \E g \in Goroutines :
        /\ goroutines[g].pc \in {"GetToken:50", "CacheStats:204", "HasMetadataServer:182"}
        /\ mu' = [mu EXCEPT !.readers = @ \ {g}]
        /\ goroutines' = IF goroutines[g].pc = "GetToken:50"
                         THEN Goto(g, "GetToken:52")
                         ELSE Return(g, goroutines[g].ret)
        /\ UNCHANGED <<tokenManager, nFetch, lastAccess>>
        /\ UNCHANGED restVars

\* if ok && time.Now().Before(cached.ExpiresAt) { return cached.Token, nil }
GoCheckCached ==
    \E g \in Goroutines :
        /\ goroutines[g].pc = "GetToken:52"
        /\ goroutines' =
               IF goroutines[g].cached.ok /\ now < goroutines[g].cached.ExpiresAt
               THEN Return(g, [token |-> goroutines[g].cached.Token, err |-> NoErr])
               ELSE Goto(g, "GetToken:61")
        /\ UNCHANGED <<tokenManager, nFetch, mu, lastAccess>>
        /\ UNCHANGED restVars

\* the left operand of "!tm.metadataChecked || tm.hasMetadata"
GoReadMetadataChecked ==
    \E g \in Goroutines :
        /\ goroutines[g].pc = "GetToken:61"
        /\ lastAccess' = Access(g, "metadataChecked", "read")
        /\ goroutines' = Goto(g, IF ~tokenManager.metadataChecked
                                 THEN "GetToken:62" ELSE "GetToken:61b")
        /\ UNCHANGED <<tokenManager, nFetch, mu>>
        /\ UNCHANGED restVars

\* the right operand of "!tm.metadataChecked || tm.hasMetadata"
GoReadHasMetadata ==
    \E g \in Goroutines :
        /\ goroutines[g].pc = "GetToken:61b"
        /\ lastAccess' = Access(g, "hasMetadata", "read")
        /\ goroutines' = Goto(g, IF tokenManager.hasMetadata
                                 THEN "GetToken:62" ELSE "GetToken:86")
        /\ UNCHANGED <<tokenManager, nFetch, mu>>
        /\ UNCHANGED restVars

\* token, err = tm.fetchFromMetadata(audience) and the tests of err
GoFetchFromMetadata ==
    \E g \in Goroutines, env \in ConcEnvs :
        \E r \in {fetchFromMetadata(goroutines[g].audience, env.meta)} :
            /\ goroutines[g].pc = "GetToken:62"
            /\ nFetch' = nFetch + 1
            /\ goroutines' =
                   IF r.err = NoErr
                   THEN [goroutines EXCEPT ![g].pc = "GetToken:82", ![g].token = r.token]
                   ELSE IF IsNoSuchHost(r.err)
                   THEN Goto(g, "GetToken:67")
                   ELSE Return(g, [token |-> EMPTY, err |-> r.err])
            /\ UNCHANGED <<tokenManager, mu, lastAccess>>
            /\ UNCHANGED restVars

\* tm.mu.Lock()
GoLock ==
    \E g \in Goroutines :
        /\ goroutines[g].pc \in {"GetToken:67", "GetToken:82", "GetToken:98", "ClearCache:186"}
        /\ mu.writer = 0
        /\ mu.readers = {}
        /\ mu' = [mu EXCEPT !.writer = g]
        /\ goroutines' = Goto(g, CASE goroutines[g].pc = "GetToken:67" -> "GetToken:68"
                                   [] goroutines[g].pc = "GetToken:82" -> "GetToken:83"
                                   [] goroutines[g].pc = "GetToken:98" -> "GetToken:99"
                                   [] OTHER -> "ClearCache:188")
        /\ UNCHANGED <<tokenManager, nFetch, lastAccess>>
        /\ UNCHANGED restVars

\* tm.metadataChecked = true
GoWriteMetadataChecked ==
    \E g \in Goroutines :
        /\ goroutines[g].pc \in {"GetToken:68", "GetToken:83"}
        /\ tokenManager' = [tokenManager EXCEPT !.metadataChecked = TRUE]
        /\ lastAccess' = Access(g, "metadataChecked", "write")
        /\ goroutines' = Goto(g, IF goroutines[g].pc = "GetToken:68"
                                 THEN "GetToken:69" ELSE "GetToken:84")
        /\ UNCHANGED <<nFetch, mu>>
        /\ UNCHANGED restVars

\* tm.hasMetadata = false (line 69), tm.hasMetadata = true (line 84)
GoWriteHasMetadata ==
    \E g \in Goroutines :
        /\ goroutines[g].pc \in {"GetToken:69", "GetToken:84"}
        /\ tokenManager' = [tokenManager EXCEPT !.hasMetadata = (goroutines[g].pc = "GetToken:84")]
        /\ lastAccess' = Access(g, "hasMetadata", "write")
        /\ goroutines' = Goto(g, IF goroutines[g].pc = "GetToken:69"
                                 THEN "GetToken:70" ELSE "GetToken:85")
        /\ UNCHANGED <<nFetch, mu>>
        /\ UNCHANGED restVars

\* tm.mu.Unlock(), written out in GetToken and deferred in ClearCache
GoUnlock ==
    \E g \in Goroutines :
        /\ goroutines[g].pc \in {"GetToken:70", "GetToken:85", "GetToken:103", "ClearCache:189"}
        /\ mu' = [mu EXCEPT !.writer = 0]
        /\ goroutines' =
               CASE goroutines[g].pc = "GetToken:70" -> Goto(g, "GetToken:73")
                 [] goroutines[g].pc = "GetToken:85" -> Goto(g, "GetToken:98")
                 [] goroutines[g].pc = "GetToken:103" ->
                        Return(g, [token |-> goroutines[g].token, err |-> NoErr])
                 [] OTHER -> Return(g, <<>>)
        /\ UNCHANGED <<tokenManager, nFetch, lastAccess>>
        /\ UNCHANGED restVars

\* if tm.devMode { return tm.fetchFromADC(audience) }; return "", fmt.Errorf(...)
GoFallback ==
    \E g \in Goroutines, env \in ConcEnvs :
        \E r \in {fetchFromADC(goroutines[g].audience, env.adc)} :
            /\ goroutines[g].pc = "GetToken:73"
            /\ IF tokenManager.devMode
               THEN /\ nFetch' = nFetch + 1
                    /\ goroutines' = Return(g, [token |-> r.token, err |-> r.err])
               ELSE /\ UNCHANGED nFetch
                    /\ goroutines' = Return(g, [token |-> EMPTY,
                           err |-> "metadata server not available (running locally?)"])
            /\ UNCHANGED <<tokenManager, mu, lastAccess>>
            /\ UNCHANGED restVars

\* } else if tm.devMode { token, err = tm.fetchFromADC(audience) ... } else { return ... }
GoFetchFromADC ==
    \E g \in Goroutines, env \in ConcEnvs :
        \E r \in {fetchFromADC(goroutines[g].audience, env.adc)} :
            /\ goroutines[g].pc = "GetToken:86"
            /\ IF tokenManager.devMode
               THEN /\ nFetch' = nFetch + 1
                    /\ goroutines' =
                           IF r.err # NoErr
                           THEN Return(g, [token |-> EMPTY, err |-> r.err])
                           ELSE [goroutines EXCEPT ![g].pc = "GetToken:98",
                                                   ![g].token = r.token]
               ELSE /\ UNCHANGED nFetch
                    /\ goroutines' = Return(g, [token |-> EMPTY,
                           err |-> "metadata server not available and dev mode disabled"])
            /\ UNCHANGED <<tokenManager, mu, lastAccess>>
            /\ UNCHANGED restVars

\* tm.cache[audience] = &CachedToken{...}
GoWriteCache ==
    \E g \in Goroutines :
        /\ goroutines[g].pc = "GetToken:99"
        /\ tokenManager' = CacheStore(tokenManager, goroutines[g].audience,
                                      goroutines[g].token, now)
        /\ lastAccess' = Access(g, "cache", "write")
        /\ goroutines' = Goto(g, "GetToken:103")
        /\ UNCHANGED <<nFetch, mu>>
        /\ UNCHANGED restVars

\* tm.cache = make(map[string]*CachedToken)
GoClearCache ==
    \E g \in Goroutines :
        /\ goroutines[g].pc = "ClearCache:188"
        /\ tokenManager' = ClearCache(tokenManager)
        /\ lastAccess' = Access(g, "cache", "write")
        /\ goroutines' = Goto(g, "ClearCache:189")
        /\ UNCHANGED <<nFetch, mu>>
        /\ UNCHANGED restVars

\* the body of CacheStats
GoCacheStats ==
    \E g \in Goroutines :
        /\ goroutines[g].pc = "CacheStats:196"
        /\ lastAccess' = Access(g, "cache", "read")
        /\ goroutines' = [goroutines EXCEPT ![g].pc = "CacheStats:204",
                                            ![g].ret = CacheStats(tokenManager, now)]
        /\ UNCHANGED <<tokenManager, nFetch, mu>>
        /\ UNCHANGED restVars

\* return tm.hasMetadata
GoHasMetadataServer ==
    \E g \in Goroutines :
        /\ goroutines[g].pc = "HasMetadataServer:181"
        /\ lastAccess' = Access(g, "hasMetadata", "read")
        /\ goroutines' = [goroutines EXCEPT ![g].pc = "HasMetadataServer:182",
                                            ![g].ret = [has |-> tokenManager.hasMetadata]]
        /\ UNCHANGED <<tokenManager, nFetch, mu>>
        /\ UNCHANGED restVars

NextConc ==
    \/ GoCall
    \/ GoRLock
    \/ GoReadCache
    \/ GoRUnlock
    \/ GoCheckCached
    \/ GoReadMetadataChecked
    \/ GoReadHasMetadata
    \/ GoFetchFromMetadata
    \/ GoLock
    \/ GoWriteMetadataChecked
    \/ GoWriteHasMetadata
    \/ GoUnlock
    \/ GoFallback
    \/ GoFetchFromADC
    \/ GoWriteCache
    \/ GoClearCache
    \/ GoCacheStats
    \/ GoHasMetadataServer

SpecConc == InitConc /\ [][NextConc]_vars

\* ------------------------------------------------------------------------
\* C1: after GetToken(audience) has returned a token without error, a second
\* GetToken(audience) that starts less than 55 minutes later, with no
\* ClearCache in between, returns the same token and asks no source.
\* ------------------------------------------------------------------------
C1_SecondCallIsCacheHit ==
    (/\ lastCall.op = "GetToken"
     /\ lastCall.prev # NoPrev
     /\ lastCall.start < lastCall.prev.at + TokenTTL)
    => (/\ lastCall.err = NoErr
        /\ lastCall.token = lastCall.prev.token
        /\ lastCall.fetches = <<>>)

\* ------------------------------------------------------------------------
\* Properties of one cycle
\* ------------------------------------------------------------------------

\* the services processService accepted in this cycle
Accepted == {i \in DOMAIN processed : processed[i].err = NoErr}

\* the accepted services that declare route R
Claimants(R) == {i \in Accepted : R \in DOMAIN processed[i].routers}

\* the route names declared in this cycle
RouteNames == UNION {DOMAIN processed[i].routers : i \in Accepted}

\* the two administrative route names
InternalRouterNames == {S_traefik_api, S_traefik_dashboard}

\* the call of processService that has just returned, when this step is one
JustProcessed == processed'[Len(processed')]

\* ------------------------------------------------------------------------
\* C2: when the credential fetch of a backend fails (error, or a token of
\* invalid format), the emitted configuration still holds every route of
\* that backend, holds no "<backend>-auth" middleware made for it, and no
\* route it owns refers to a "<backend>-auth" middleware that the
\* middlewares map lacks.
\* ------------------------------------------------------------------------
C2_FailedFetchOmitsAuth ==
    \A k \in DOMAIN configChan : \A i \in Accepted :
        LET e == processed[i]
            emitted == configChan[k]
        IN  e.serviceToken = EMPTY =>
              /\ \A n \in DOMAIN e.routers : n \in DOMAIN emitted.Routers
              /\ \A n \in DOMAIN e.routers :
                    emitted.writer[n] = e.Name =>
                        \E j \in Accepted : /\ processed[j].Name = e.Name
                                            /\ emitted.Routers[n] = processed[j].routers[n]
              /\ e.authMiddlewareName \in DOMAIN emitted.Middlewares =>
                    \E j \in Accepted : /\ processed[j].authMiddlewareName = e.authMiddlewareName
                                        /\ processed[j].serviceToken # EMPTY
              /\ \A n \in DOMAIN e.routers :
                    emitted.writer[n] = e.Name =>
                        \A m \in DOMAIN emitted.Routers[n].Middlewares :
                            emitted.Routers[n].Middlewares[m] = e.authMiddlewareName
                                => e.authMiddlewareName \in DOMAIN emitted.Middlewares

DedicatedOwns(emitted, R) ==
    (\E i \in Claimants(R) : isDedicatedService(R, processed[i].Name)) =>
        /\ R \in DOMAIN emitted.routerSources
        /\ isDedicatedService(R, emitted.routerSources[R])
        /\ \E i \in Claimants(R) :
              /\ processed[i].Name = emitted.routerSources[R]
              /\ emitted.Routers[R] = processed[i].routers[R]

C4_DedicatedOwnsEveryRoute ==
    \A k \in DOMAIN configChan : \A R \in RouteNames : DedicatedOwns(configChan[k], R)

\* C4 amended: the same, for every route name other than the two
\* administrative ones, whose routers are always the built-in ones
C4_DedicatedOwnsRoute ==
    \A k \in DOMAIN configChan :
        \A R \in RouteNames \ InternalRouterNames : DedicatedOwns(configChan[k], R)

\* the dedicated backend was processed first, the generic one after it, and
\* the configuration was emitted
C4_Witness ==
    /\ configChan # <<>>
    /\ Len(processed) = 2
    /\ processed[1].Name = SVC_wd_stg /\ processed[1].err = NoErr
    /\ processed[2].Name = SVC_cat /\ processed[2].err = NoErr
    /\ configChan[1].routerSources[R_wd] = SVC_wd_stg

\* ------------------------------------------------------------------------
\* C5: AddRouterWithSource(R, cfg, B): with no recorded owner, B becomes
\* the owner and routers[R] = cfg; with an owner dedicated to R and B not
\* dedicated, router and owner stay as they were; in every other case
\* routers[R] = cfg and B becomes the owner.
\* ------------------------------------------------------------------------
C5_Step ==
    (Len(processed') = Len(processed) + 1 /\ JustProcessed.err = NoErr) =>
        \A R \in DOMAIN JustProcessed.routers :
            LET B == JustProcessed.Name
                cfg == JustProcessed.routers[R]
                taken == /\ R \in DOMAIN config'.Routers
                         /\ config'.Routers[R] = cfg
                         /\ R \in DOMAIN config'.routerSources
                         /\ config'.routerSources[R] = B
                kept == /\ config'.Routers[R] = config.Routers[R]
                        /\ config'.routerSources[R] = config.routerSources[R]
            IN  IF R \notin DOMAIN config.routerSources THEN taken
                ELSE IF /\ isDedicatedService(R, config.routerSources[R])
                        /\ ~isDedicatedService(R, B)
                THEN kept
                ELSE taken

OwnerChanged(R) ==
    /\ R \in DOMAIN config.routerSources
    /\ R \in DOMAIN config'.routerSources
    /\ config'.routerSources[R] # config.routerSources[R]

C7_RouterServiceExists ==
    \A k \in DOMAIN configChan :
        \A n \in DOMAIN configChan[k].Routers :
            configChan[k].writer[n] # InternalWriter =>
                configChan[k].Routers[n].Service \in DOMAIN configChan[k].Services

\* ------------------------------------------------------------------------
\* C9: a project whose listing fails and a backend whose processing fails
\* are skipped: every enabled backend of every project listed without error
\* is passed to processService, in order, and the cycle emits exactly one
\* configuration, which holds every route of every accepted backend.
\* ------------------------------------------------------------------------
Enabled(name) ==
    LET svc == CatalogueService(name)
        on(labels) == S_traefik_enable \in DOMAIN labels /\ labels[S_traefik_enable] = S_true
    IN  on(svc.Labels) \/ on(svc.TemplateLabels)

RECURSIVE EnabledIn(_, _)
EnabledIn(p, items) ==
    IF items = <<>> THEN <<>>
    ELSE (IF Enabled(Head(items)) THEN <<[Name |-> Head(items), project |-> p]>> ELSE <<>>)
         \o EnabledIn(p, Tail(items))

RECURSIVE Expected(_)
Expected(p) ==
    IF p > Len(ProjectIDs) THEN <<>>
    ELSE (IF directory[p].err = NoErr THEN EnabledIn(p, directory[p].Items) ELSE <<>>)
         \o Expected(p + 1)

C9_FailuresAreSkipped ==
    pc = "idle" =>
        /\ [i \in DOMAIN processed |->
               [Name |-> processed[i].Name, project |-> processed[i].project]] = Expected(1)
        /\ Len(configChan) = 1
        /\ \A i \in Accepted : \A R \in DOMAIN processed[i].routers :
              R \in DOMAIN configChan[1].Routers

\* the first project could not be listed, the second holds a backend that
\* processService rejects and one it accepts, and the cycle has ended
C9_Witness ==
    /\ pc = "idle"
    /\ directory[1].err # NoErr
    /\ Len(processed) = 2
    /\ processed[1].Name = SVC_plain /\ processed[1].err # NoErr
    /\ processed[2].Name = SVC_cat /\ processed[2].err = NoErr
    /\ R_wd \in DOMAIN configChan[1].Routers

\* ------------------------------------------------------------------------
\* Properties of the poll loops
\* ------------------------------------------------------------------------

\* ------------------------------------------------------------------------
\* C8: a handoff the consumer does not take within 60 seconds ends with a
\* timeout error: the loop is never blocked in a channel send for longer.
\* ------------------------------------------------------------------------
C8_HandoffNeverBlocksLonger ==
    pc \in {"send", "handoff"} => now - blockedSince <= HandoffTimeout

\* ------------------------------------------------------------------------
\* C10: a credential fetched and cached for a backend URL in one cycle is
\* served from the cache, with no fetch, in every later cycle of the same
\* loop that asks for it less than 55 minutes afterwards, in the standalone
\* loop and in the plugin loop.
\* ------------------------------------------------------------------------
C10_CachePersistsAcrossCycles ==
    (/\ lastCall.op = "GetToken"
     /\ lastCall.prev.cached
     /\ lastCall.prev.cycle < lastCall.cycle
     /\ lastCall.start < lastCall.prev.at + TokenTTL)
    => (/\ lastCall.err = NoErr
        /\ lastCall.token = lastCall.prev.token
        /\ lastCall.fetches = <<>>)

\* ------------------------------------------------------------------------
\* C11: extractRouterConfigs gives the same route definitions on a label map
\* whatever the order in which the keys are visited: what a processService
\* call got from it is what every visiting order gives (labelOrders holds an
\* order for each result the function has on the map).
\* ------------------------------------------------------------------------
C11_ExtractIsOrderIndependent ==
    \A i \in 1..Len(processed) :
        \A o \in labelOrders[processed[i].Labels] :
            routerConfigsOf[processed[i].Labels][o] = processed[i].parsed

\* ------------------------------------------------------------------------
\* C12: a cycle run again on the same directory output, with the same flags
\* and every token served from the cache that the earlier cycle left, builds
\* the configuration the earlier cycle emitted, whatever the orders in which
\* the maps are visited.  The standalone loop shows both at once when its
\* send blocks: configChan holds the configuration of the cycle before.
\* ------------------------------------------------------------------------
ServedFromCache(p) ==
    p.err = NoErr =>
        /\ p.tokenErr = NoErr
        /\ lastOk[CatalogueService(p.Name).URL].cached
        /\ lastOk[CatalogueService(p.Name).URL].cycle < cycle

C12_RepeatedCycleSameConfig ==
    (/\ mode = "standalone"
     /\ pc = "send"
     /\ cycle > 1
     /\ configChan # <<>>
     /\ \A i \in 1..Len(processed) : ServedFromCache(processed[i]))
    => config = configChan[1]

\* ------------------------------------------------------------------------
\* C13: a failed GetToken for one audience does not affect the others: it
\* leaves their cache entries as they were, and the next GetToken, when it
\* names another audience that has no valid cache entry, asks a source.
\* ------------------------------------------------------------------------
OthersUntouched(audience) ==
    \A a \in Audiences \ {audience} :
        /\ (a \in DOMAIN tokenManager'.cache) = (a \in DOMAIN tokenManager.cache)
        /\ a \in DOMAIN tokenManager.cache => tokenManager'.cache[a] = tokenManager.cache[a]

C13_Step ==
    /\ (/\ lastCall'.op = "GetToken"
        /\ lastCall' # lastCall
        /\ lastCall'.err # NoErr)
       => OthersUntouched(lastCall'.audience)
    /\ (/\ lastCall.op = "GetToken"
        /\ lastCall.err # NoErr
        /\ lastCall'.op = "GetToken"
        /\ lastCall'.audience # lastCall.audience
        /\ ~CacheValid(tokenManager, lastCall'.audience, now))
       => lastCall'.fetches # <<>>

C13_FailureIsIsolated == [][C13_Step]_vars

\* ------------------------------------------------------------------------
\* C14: a GetToken that misses the cache asks the metadata server first; it
\* asks ADC only in development mode and after the metadata server was found
\* unavailable; without development mode ADC is never asked; and a GetToken
\* that returns an error writes nothing to the cache.
\* ------------------------------------------------------------------------
C14_Step ==
    (lastCall'.op = "GetToken" /\ lastCall' # lastCall)
    => /\ ~CacheValid(tokenManager, lastCall'.audience, now)
          => (lastCall'.fetches # <<>> /\ Head(lastCall'.fetches) = "metadata")
       /\ (\E i \in DOMAIN lastCall'.fetches : lastCall'.fetches[i] = "adc")
          => /\ tokenManager.devMode
             /\ tokenManager'.metadataChecked
             /\ ~tokenManager'.hasMetadata
       /\ lastCall'.err # NoErr => tokenManager'.cache = tokenManager.cache

C14_MetadataFirst == [][C14_Step]_vars

\* ------------------------------------------------------------------------
\* C15: GetToken never returns, and the cache never holds, a token that does
\* not start with "eyJ", whichever source produced it.
\* ------------------------------------------------------------------------
C15_OnlySignedTokens ==
    /\ (lastCall.op = "GetToken" /\ lastCall.err = NoErr)
       => HasPrefix(lastCall.token, S_eyJ)
    /\ \A a \in DOMAIN tokenManager.cache : HasPrefix(tokenManager.cache[a].Token, S_eyJ)

\* ------------------------------------------------------------------------
\* C16: a GetToken for an audience that has a cache entry is served from the
\* cache exactly when it starts strictly before the expiry of the entry; from
\* the expiry on it fetches again and, when it succeeds, replaces the entry
\* by the new token with an expiry 55 minutes after the fetch.
\* ------------------------------------------------------------------------
C16_Step ==
    (/\ lastCall'.op = "GetToken"
     /\ lastCall' # lastCall
     /\ lastCall'.audience \in DOMAIN tokenManager.cache)
    => LET entry == tokenManager.cache[lastCall'.audience]
       IN  /\ (now < entry.ExpiresAt)
              <=> (/\ lastCall'.fetches = <<>>
                   /\ lastCall'.err = NoErr
                   /\ lastCall'.token = entry.Token)
           /\ now >= entry.ExpiresAt
              => /\ lastCall'.fetches # <<>>
                 /\ lastCall'.err = NoErr
                    => tokenManager'.cache[lastCall'.audience] =
                           [Token |-> lastCall'.token, ExpiresAt |-> now' + TokenTTL]

C16_ExpiryBoundary == [][C16_Step]_vars

\* ------------------------------------------------------------------------
\* C18: no step but ClearCache removes an audience from the cache.  A
\* GetToken changes at most the entry of its own audience, a GetToken that
\* returns an error changes nothing, ClearCache leaves the cache empty, and
\* the CacheStats that follows a ClearCache reports a total of 0.
\* ------------------------------------------------------------------------
C18_Step ==
    /\ \/ DOMAIN tokenManager.cache \subseteq DOMAIN tokenManager'.cache
       \/ lastCall'.op = "ClearCache"
    /\ (lastCall'.op = "GetToken" /\ lastCall' # lastCall)
       => /\ OthersUntouched(lastCall'.audience)
          /\ lastCall'.err # NoErr => tokenManager'.cache = tokenManager.cache
    /\ lastCall'.op = "ClearCache" => tokenManager'.cache = <<>>
    /\ lastCall'.op = "CacheStats"
       => /\ tokenManager'.cache = tokenManager.cache
          /\ lastCall'.stats.total = Cardinality(DOMAIN tokenManager.cache)
          /\ lastCall.op = "ClearCache" => lastCall'.stats.total = 0

C18_OnlyClearCacheRemoves == [][C18_Step]_vars

\* a token was fetched from the metadata server and cached, the cache was
\* cleared, and CacheStats has reported the empty cache
C18_Witness ==
    /\ lastCall.op = "CacheStats"
    /\ lastCall.stats.total = 0
    /\ tokenManager.hasMetadata
    /\ tokenManager.cache = <<>>

\* ------------------------------------------------------------------------
\* C17: whatever GetToken, ClearCache and CacheStats calls have run, one
\* after the other or overlapping, every cache entry whose expiry is in the
\* future holds a non-empty token.
\* ------------------------------------------------------------------------
C17_ValidEntryHasToken ==
    \A a \in DOMAIN tokenManager.cache :
        now < tokenManager.cache[a].ExpiresAt => tokenManager.cache[a].Token # EMPTY

\* an entry is in the cache and not expired while another GetToken for the
\* same audience, which overlapped the one that stored it, holds the write
\* lock and is about to replace it
C17_Witness ==
    \E g \in Goroutines :
        /\ goroutines[g].pc = "GetToken:99"
        /\ goroutines[g].audience \in DOMAIN tokenManager.cache
        /\ now < tokenManager.cache[goroutines[g].audience].ExpiresAt

\* ------------------------------------------------------------------------
\* C19: every access of a TokenManager method to cache, metadataChecked or
\* hasMetadata is made under tm.mu, a read under the read or the write lock
\* and a write under the write lock, so that no goroutine is about to read
\* one of these fields without the lock while another is writing them.
\* ------------------------------------------------------------------------
C19_AccessesUnderLock ==
    /\ lastAccess.kind = "read" => lastAccess.held \in {"R", "W"}
    /\ lastAccess.kind = "write" => lastAccess.held = "W"
    /\ ~ \E g, h \in Goroutines :
            /\ goroutines[g].pc \in {"GetToken:61", "GetToken:61b"}
            /\ Held(g) = "none"
            /\ goroutines[h].pc \in {"GetToken:68", "GetToken:69", "GetToken:83", "GetToken:84"}

\* ------------------------------------------------------------------------
\* C20: once Stop has been called, the poll loop starts no cycle on a tick
\* that fired after the call.
\* ------------------------------------------------------------------------
C20_Step ==
    cycle' = cycle + 1
    => ~(stopChan.closed /\ tickerC # <<>> /\ Head(tickerC) > stopChan.at)

C20_NoCycleAfterStop == [][C20_Step]_vars

\* ------------------------------------------------------------------------
\* C21: Start and Provide return only after the first cycle has handed its
\* configuration to the channel, no timer-driven cycle begins before the
\* first cycle has completed, and the caller is released after success or
\* after a bounded timeout, whatever the capacity of the channel and
\* whether or not the consumer is ready.
\* ------------------------------------------------------------------------
C21_Released ==
    (cycle = 1 /\ pc \in {"send", "handoff"}) => now - blockedSince <= HandoffTimeout

C21_Step ==
    /\ cycle' # cycle => (pc = "idle" /\ cycle' = cycle + 1)
    /\ (cycle = 1 /\ pc # "idle" /\ pc' = "idle" /\ updateErr' = NoErr)
           => \/ capacity = 0
              \/ IF mode = "plugin"
                 THEN Len(cfgChan') = Len(cfgChan) + 1
                 ELSE Len(configChan') = Len(configChan) + 1

C21_FirstCycleSynchronous == []C21_Released /\ [][C21_Step]_vars

\* ------------------------------------------------------------------------
\* C22: at every moment at most one pollLoop runs on a Provider and at most
\* one of its cycles is in progress, whatever the sequence of Start and
\* Stop calls, the one of runDaemon included, which calls Start on the same
\* Provider at every tick.
\* ------------------------------------------------------------------------
C22_OneLoopOneCycle ==
    /\ Cardinality(Running) <= 1
    /\ CyclesInProgress <= 1

\* ------------------------------------------------------------------------
\* C23: for a backend whose metadata has no key of the routing namespace
\* (traefik_http_routers_<name>_<property>), parsing yields no route and
\* processService returns "no router labels found" without fetching a
\* credential and without adding a router, a backend or a middleware to the
\* configuration under construction; the cycle goes on with the backends
\* that remain.
\* ------------------------------------------------------------------------
InRoutingNamespace(key) ==
    /\ HasPrefix(key, S_routers_prefix)
    /\ Contains(SubSeq(key, Len(S_routers_prefix) + 1, Len(key)), <<"_">>)

NoRoutingKey(labels) == \A key \in DOMAIN labels : ~InRoutingNamespace(key)

C23_Step ==
    (Len(processed') = Len(processed) + 1 /\ NoRoutingKey(JustProcessed.Labels))
        => /\ DOMAIN JustProcessed.parsed = {}
           /\ JustProcessed.err = "no router labels found"
           /\ config' = config
           /\ nFetch' = nFetch
           /\ tokenManager' = tokenManager
           /\ pc' = "cycle"
           /\ services' = Tail(services)

C23_NoRoutesIsScopedError == [][C23_Step]_vars

\* a backend without routing keys was rejected and the backend after it
\* was processed and has its route in the configuration
C23_Witness ==
    \E i \in DOMAIN processed : \E j \in DOMAIN processed :
        /\ i < j
        /\ NoRoutingKey(processed[i].Labels)
        /\ processed[i].err = "no router labels found"
        /\ processed[j].err = NoErr
        /\ DOMAIN processed[j].routers # {}
        /\ DOMAIN processed[j].routers \subseteq DOMAIN config.Routers

\* ------------------------------------------------------------------------
\* Properties of the label parser and of the dedicated-backend test
\* ------------------------------------------------------------------------

\* extractRouterConfigs has been applied to a label map in one visiting order
Extracted == applied.fn = "extractRouterConfigs" /\ applied.done

\* the labels of route name that carry the given property
LabelsOf(name, property) ==
    {k \in DOMAIN applied.labels : NameOf(k) = name /\ PropertyOf(k) = property}

C25_InternalRoutersAlways ==
    \A k \in DOMAIN configChan : \A name \in {S_traefik_api, S_traefik_dashboard} :
        /\ name \in DOMAIN configChan[k].Routers
        /\ configChan[k].Routers[name].Priority = 1000
        /\ configChan[k].Routers[name].Service = S_api_internal
        /\ configChan[k].Routers[name].EntryPoints = <<S_web>>

\* the cycle has emitted its configuration after a backend dedicated to
\* "traefik-api" declared a route of that name and was accepted
C25_Witness ==
    /\ Len(configChan) = 1
    /\ \E i \in DOMAIN processed :
          /\ processed[i].err = NoErr
          /\ S_traefik_api \in DOMAIN processed[i].routers
          /\ isDedicatedService(S_traefik_api, processed[i].Name)

\* ------------------------------------------------------------------------
\* C26: AddAuthMiddleware(name, "") still registers a middleware under
\* name, whose Authorization header carries the failure marker
\* "Bearer TOKEN_FETCH_FAILED".
\* ------------------------------------------------------------------------
\* "TOKEN_FETCH_FAILED"
S_TOKEN_FETCH_FAILED ==
    <<"T", "O", "K", "E", "N", "_", "F", "E", "T", "C", "H", "_", "F", "A", "I", "L", "E", "D">>

C26_EmptyTokenGetsMarker ==
    (applied.fn = "AddAuthMiddleware" /\ applied.done /\ applied.token = EMPTY)
        => /\ applied.name \in DOMAIN applied.config.Middlewares
           /\ applied.config.Middlewares[applied.name].Headers.CustomRequestHeaders
                  = (S_Authorization :> (S_Bearer \o S_TOKEN_FETCH_FAILED))

\* ------------------------------------------------------------------------
\* C27: an entrypoints label whose value is empty, or whose comma-separated
\* tokens are all blank after trimming, yields the default entry-point list
\* ["web"]; no entry point of a parsed route is the empty string.
\* ------------------------------------------------------------------------
AllBlank(value) ==
    \A i \in DOMAIN Split(value, <<",">>) : TrimSpace(Split(value, <<",">>)[i]) = EMPTY

C27_BlankEntryPointsGiveDefault ==
    Extracted =>
        \A name \in DOMAIN applied.routes :
            /\ (\E k \in LabelsOf(name, S_entrypoints) : AllBlank(applied.labels[k]))
                   => applied.routes[name].EntryPoints = <<S_web>>
            /\ \A i \in DOMAIN applied.routes[name].EntryPoints :
                   applied.routes[name].EntryPoints[i] # EMPTY

\* ------------------------------------------------------------------------
\* C28: for the properties rule and rule_id alike, the match expression of
\* the route is the symbolic-rule table entry when the label value is a
\* known key and the verbatim label value otherwise; a route with no
\* priority label gets the priority-table value for its name, else 200, and
\* a route with no entrypoints label the default entry point ["web"].
\* ------------------------------------------------------------------------
Translated(value) == IF value \in DOMAIN ruleMap THEN ruleMap[value] ELSE value

C28_RuleTranslationAndDefaults ==
    Extracted =>
        \A name \in DOMAIN applied.routes :
            /\ \A property \in {S_rule, S_rule_id} :
                   (/\ LabelsOf(name, property) # {}
                    /\ LabelsOf(name, IF property = S_rule THEN S_rule_id ELSE S_rule) = {})
                       => \A k \in LabelsOf(name, property) :
                              applied.routes[name].Rule = Translated(applied.labels[k])
            /\ LabelsOf(name, S_priority) = {}
                   => applied.routes[name].Priority =
                          (IF name \in DOMAIN defaultPriorityMap
                           THEN defaultPriorityMap[name] ELSE 200)
            /\ LabelsOf(name, S_entrypoints) = {}
                   => applied.routes[name].EntryPoints = <<S_web>>

\* ------------------------------------------------------------------------
\* C29: isDedicatedService(R, B) holds if and only if the name of B with
\* the known environment suffixes (-stg, -prd, -dev, -staging, -production)
\* stripped equals R exactly, or equals R when hyphens are ignored; a
\* backend whose stripped name merely contains R as a proper substring is
\* never dedicated to R.
\* ------------------------------------------------------------------------
EndsWithSuffix(name) == \E i \in DOMAIN EnvSuffixes : HasSuffix(name, EnvSuffixes[i])

\* the name with the environment suffixes it ends with taken off
RECURSIVE Stripped(_)
Stripped(name) ==
    IF EndsWithSuffix(name)
    THEN Stripped(TrimSuffix(name, EnvSuffixes[CHOOSE i \in DOMAIN EnvSuffixes :
                                                  HasSuffix(name, EnvSuffixes[i])]))
    ELSE name

C29_DedicatedIffStrippedNameMatches ==
    (applied.fn = "isDedicatedService" /\ applied.done) =>
        LET R == applied.routerName
            B == Stripped(applied.serviceName)
        IN  /\ applied.dedicated <=> (B = R \/ RemoveHyphens(B) = RemoveHyphens(R))
            /\ (Contains(B, R) /\ B # R /\ RemoveHyphens(B) # RemoveHyphens(R))
                   => ~applied.dedicated

\* ------------------------------------------------------------------------
\* C30: for every route of a backend for which a credential was obtained,
\* and for every value of the route's middlewares label, the emitted
\* middleware list has the '<backend>-auth' reference as its first element.
\* ------------------------------------------------------------------------
C30_AuthMiddlewareFirst ==
    (applied.fn = "assembleRouter" /\ applied.done /\ applied.token # EMPTY) =>
        /\ applied.assembled.Middlewares # <<>>
        /\ Head(applied.assembled.Middlewares) = applied.service \o S_auth

\* ------------------------------------------------------------------------
\* C31: no router in an emitted configuration lists the same middleware
\* reference twice, whether the reference comes from the middlewares label
\* or from injection (credential, strip-prefix, cold-start retry).
\* ------------------------------------------------------------------------
NoDuplicates(seq) == \A i, j \in DOMAIN seq : seq[i] = seq[j] => i = j

C31_NoMiddlewareTwice ==
    (applied.fn = "assembleRouter" /\ applied.done) =>
        NoDuplicates(applied.assembled.Middlewares)

\* ------------------------------------------------------------------------
\* C32: when user-facing auth checks are disabled (USER_AUTH_ENABLED is not
\* 'true', or SKIP_AUTH_CHECK is 'true'), no router emitted for any backend
\* contains a middleware reference whose name contains 'auth-check'.
\* ------------------------------------------------------------------------
AuthChecksDisabled(env) == ~env.USER_AUTH_ENABLED \/ env.SKIP_AUTH_CHECK

C32_NoAuthCheckWhenDisabled ==
    (applied.fn = "assembleRouter" /\ applied.done /\ AuthChecksDisabled(applied.env)) =>
        \A i \in DOMAIN applied.assembled.Middlewares :
            ~Contains(applied.assembled.Middlewares[i], S_auth_check)

\* C32, amended: when user-facing auth checks are disabled, the only
\* middleware reference of a router whose name contains 'auth-check' is the
\* credential middleware of its own backend, '<service name>-auth', for a
\* backend whose name contains 'auth-check' and for which a credential was
\* obtained; no reference taken from the middlewares label contains it.
C32_OnlyOwnCredentialNamesAuthCheck ==
    (applied.fn = "assembleRouter" /\ applied.done /\ AuthChecksDisabled(applied.env)) =>
        \A i \in DOMAIN applied.assembled.Middlewares :
            Contains(applied.assembled.Middlewares[i], S_auth_check)
                => /\ i = 1
                   /\ applied.assembled.Middlewares[i] = applied.service \o S_auth
                   /\ applied.token # EMPTY

\* a label that names an auth-check middleware has been filtered
C32_Witness ==
    /\ applied.fn = "assembleRouter"
    /\ applied.done
    /\ AuthChecksDisabled(applied.env)
    /\ RouterKey(R_x, S_middlewares) \in DOMAIN applied.labels
    /\ applied.labels[RouterKey(R_x, S_middlewares)] = V_mws_check
    /\ applied.service = SVC_cat
    /\ applied.token # EMPTY
    /\ Head(applied.assembled.Middlewares) = MW_cat_auth
    /\ Len(applied.assembled.Middlewares) = 3

\* ------------------------------------------------------------------------
\* C33: the forward-auth middlewares are emitted exactly when user auth is
\* enabled and the cycle discovered at least one backend whose name contains
\* the identity marker 'home-index'; their address is that backend's URL
\* followed by '/api/auth/check' (the last such backend in processing order
\* when several exist), whether or not processing of that backend itself
\* succeeded.
\* ------------------------------------------------------------------------
RECURSIVE ListedNames(_)
ListedNames(lists) ==
    IF lists = <<>> THEN <<>> ELSE Head(lists).names \o ListedNames(Tail(lists))

\* the backends of the cycle whose name holds the marker, in processing order
IdentityBackends == SelectSeq(ListedNames(listed), LAMBDA n : Contains(n, S_home_index))

ForwardAuthNames == {S_lab1_auth_check, S_lab2_auth_check, S_lab3_auth_check}

C33_ForwardAuthFollowsDiscovery ==
    \A k \in DOMAIN configChan :
        /\ (\E name \in ForwardAuthNames : name \in DOMAIN configChan[k].Middlewares)
               <=> (osEnv.USER_AUTH_ENABLED /\ IdentityBackends # <<>>)
        /\ \A name \in ForwardAuthNames \cap DOMAIN configChan[k].Middlewares :
               configChan[k].Middlewares[name].ForwardAuth.Address =
                   CatalogueService(IdentityBackends[Len(IdentityBackends)]).URL
                       \o S_auth_check_path

\* ------------------------------------------------------------------------
\* C34: the emitted backends map corresponds one-to-one to the backend
\* descriptors processed in the cycle: each processed descriptor contributes
\* exactly one backend entry, with its connection URL as the only target and
\* passHostHeader false, and no two descriptors share or overwrite an entry.
\* ------------------------------------------------------------------------
C34_BackendsOneToOne ==
    configChan # <<>> =>
        /\ Cardinality(DOMAIN configChan[1].Services) = Cardinality(Accepted)
        /\ \A i \in Accepted :
               /\ processed[i].serviceName \in DOMAIN configChan[1].Services
               /\ configChan[1].Services[processed[i].serviceName] =
                      [LoadBalancer |->
                          [Servers |-> <<[URL |-> CatalogueService(processed[i].Name).URL]>>,
                           PassHostHeader |-> FALSE]]
        /\ \A i, j \in Accepted : i # j => processed[i].serviceName # processed[j].serviceName

\* ------------------------------------------------------------------------
\* C35: PluginProvider.convertToTraefikConfig preserves the configuration
\* produced by the internal provider: the converted routers, backends and
\* middlewares have the same names and the same contents, and every
\* converted middleware is either a header-injection definition or a
\* forward-auth definition with its address and header lists, never an
\* empty definition.
\* ------------------------------------------------------------------------
C35_ConversionPreserves ==
    (applied.fn = "convertToTraefikConfig" /\ applied.done) =>
        /\ applied.converted.Routers = applied.src.Routers
        /\ applied.converted.Services = applied.src.Services
        /\ DOMAIN applied.converted.Middlewares = DOMAIN applied.src.Middlewares
        /\ \A n \in DOMAIN applied.src.Middlewares :
               \/ /\ applied.src.Middlewares[n].Headers # NoHeaders
                  /\ applied.converted.Middlewares[n].Headers # NoHeaders
                  /\ applied.converted.Middlewares[n].Headers.CustomRequestHeaders =
                         applied.src.Middlewares[n].Headers.CustomRequestHeaders
               \/ /\ applied.src.Middlewares[n].ForwardAuth # NoForwardAuth
                  /\ "ForwardAuth" \in DOMAIN applied.converted.Middlewares[n]
                  /\ applied.converted.Middlewares[n].ForwardAuth =
                         applied.src.Middlewares[n].ForwardAuth

\* ------------------------------------------------------------------------
\* C36: each cycle builds its configuration and its route-ownership record
\* from empty: the snapshot emitted by a cycle depends only on that cycle's
\* directory output, the flags and the credential cache, so a route or an
\* owner recorded in an earlier cycle never appears in or influences a later
\* snapshot, and a configuration that has been handed off is never modified
\* afterwards.
\* ------------------------------------------------------------------------

\* the names the directory gives to the cycle under way
DirectoryNames ==
    UNION {{directory[p].Items[i] : i \in DOMAIN directory[p].Items} : p \in DOMAIN directory}

\* what updateConfig hands off is made of this cycle's processService calls
FromThisCycle(c) ==
    /\ \A i \in DOMAIN processed : processed[i].Name \in DirectoryNames
    /\ DOMAIN c.Routers \subseteq RouteNames \cup InternalRouterNames
    /\ \A name \in DOMAIN c.Routers \ InternalRouterNames :
           \E i \in Claimants(name) :
               /\ c.Routers[name] = processed[i].routers[name]
               /\ c.routerSources[name] = processed[i].Name
    /\ DOMAIN c.routerSources \subseteq RouteNames
    /\ DOMAIN c.Services = {processed[i].serviceName : i \in Accepted}
    /\ DOMAIN c.Middlewares \subseteq
           {processed[i].authMiddlewareName : i \in Accepted} \cup ForwardAuthNames

\* a channel loses its head, gains a tail element, or is made anew: what is
\* in it does not change
SameContent(before, after) ==
    \/ after = before
    \/ after = <<>>
    \/ before # <<>> /\ after = Tail(before)
    \/ after # <<>> /\ SubSeq(after, 1, Len(after) - 1) = before

C36_Step ==
    /\ cycle' # cycle => config' = NewDynamicConfig /\ processed' = <<>>
    /\ (pc = "cycle" /\ pc' # "cycle") => FromThisCycle(config')
    /\ SameContent(configChan, configChan')
    /\ SameContent(cfgChan, cfgChan')

C36_CyclesStartFromEmpty == [][C36_Step]_vars

\* the second cycle has handed off a snapshot with no route of a service,
\* after a first cycle that fetched a token for a service it processed
C36_Witness ==
    /\ mode = "standalone"
    /\ cycle = 2
    /\ pc = "idle"
    /\ configChan # <<>>
    /\ DOMAIN configChan[1].Routers = InternalRouterNames
    /\ configChan[1].Services = <<>>
    /\ \E a \in URLs : lastOk[a].cycle = 1

\* ------------------------------------------------------------------------
\* C37: CacheStats returns total = the number of cached audiences and
\* expired = the number of entries whose expiry has passed, and its notion
\* of expired agrees with GetToken at every instant, including the instant
\* now == expiresAt: an entry is counted as expired exactly when GetToken
\* would fetch again instead of serving it from the cache.
\* ------------------------------------------------------------------------
C37_Step ==
    (lastCall'.op = "CacheStats" /\ UNCHANGED <<tokenManager, now>>) =>
        /\ lastCall'.stats.total = Cardinality(DOMAIN tokenManager.cache)
        /\ lastCall'.stats.expired =
               Cardinality({a \in DOMAIN tokenManager.cache : ~CacheValid(tokenManager, a, now)})

C37_StatsAgreeWithGetToken == [][C37_Step]_vars

\* ------------------------------------------------------------------------
\* C38: in every emitted configuration, the credential middleware referenced
\* by a route carries a token that was fetched for the URL of the backend
\* that the route's backend entry targets, for every combination of backends
\* in the cycle, including backends that resolve to the same backend name
\* through the service override and routes whose ownership was taken over by
\* another backend.
\* ------------------------------------------------------------------------

\* the tokens GetToken returned in this cycle for the audience url
TokensFor(url) ==
    {processed[i].serviceToken :
        i \in {j \in Accepted : /\ CatalogueService(processed[j].Name).URL = url
                                /\ processed[j].serviceToken # EMPTY}}

\* the middlewares of configuration c that inject a credential
CredentialMiddlewares(c) == {m \in DOMAIN c.Middlewares : c.Middlewares[m].Headers # NoHeaders}

CredentialMatchesTarget(c, router) ==
    \A k \in DOMAIN router.Middlewares :
        (router.Middlewares[k] \in CredentialMiddlewares(c) /\ router.Service \in DOMAIN c.Services)
            => \E t \in TokensFor(c.Services[router.Service].LoadBalancer.Servers[1].URL) :
                  c.Middlewares[router.Middlewares[k]].Headers.CustomRequestHeaders
                      = (S_XServerlessAuthorization :> (S_Bearer \o t))

C38_CredentialMatchesBackend ==
    \A k \in DOMAIN configChan : \A name \in DOMAIN configChan[k].Routers :
        CredentialMatchesTarget(configChan[k], configChan[k].Routers[name])

\* ------------------------------------------------------------------------
\* C39: every internal provider that a plugin cycle starts is fully stopped
\* by that cycle: after PluginProvider.updateConfig returns, the internal
\* provider's poll-loop goroutine terminates and never remains blocked
\* sending on the cycle's private single-slot channel, however long the
\* consumer takes to accept the configuration.
\* ------------------------------------------------------------------------
C39_InternalLoopNeverBlocked ==
    (mode = "plugin" /\ pc = "idle") =>
        \A i \in DOMAIN pollLoops :
            ~(pollLoops[i].pc = "send" /\ Len(configChan) >= configChanCap)

====
